---- MODULE Spec2Model ----
(***************************************************************************)
(* Onboarding agent of agentic-powered-golden-path-demo.                   *)
(*                                                                         *)
(* Two variants of the same pipeline are modelled:                         *)
(*   "agent" : class OnboardingAgent            (src/src/agent.py)         *)
(*   "func"  : the module-level functions       (src/ai-onboarding-agent/  *)
(*             agent.py)                                                   *)
(*                                                                         *)
(* Text the code inspects (requests, application names) is a sequence of   *)
(* characters; a literal the code only concatenates ("-source", ".git",    *)
(* "/") is one element.  Optional values (Python None) are sequences of    *)
(* length 0 (None) or 1 (a value).                                         *)
(*                                                                         *)
(* Spec is the onboarding flow, run after run.  SpecExtract, SpecStage and *)
(* SpecScratch apply single operations of the program to inputs drawn from *)
(* bounded sets, respectively interleave the scratch-file steps of two     *)
(* concurrent runs.  SpecMain is main(): the construction of the agent     *)
(* from the environment followed by one flow.  SpecRunner is the test      *)
(* runner of tests/test_runner.py; SpecRunnerLive adds the fairness of its *)
(* steps.                                                                  *)
(***************************************************************************)
EXTENDS Integers, Sequences, FiniteSets, TLC

VARIABLES
    variant,     \* which implementation runs: "agent" or "func"
    request,     \* natural_language_request of the current run
    pc,          \* position inside run_onboarding_flow
    result,      \* the result dict of OnboardingAgent.run_onboarding_flow
    app,         \* local app_info (agent) / app_name (func), optional
    repos,       \* local repo_info (agent) / URL pair (func), optional
    outcome,     \* how run_onboarding_flow ended: none / returned / raised
    calls,       \* stages invoked by the current run, in order, with outputs
    hosting,     \* repositories at the code-hosting provider
    cluster,     \* Application names applied to the cluster
    runs,        \* number of runs started so far
    probe,       \* one operation applied to drawn inputs: inputs and result
    tmp,         \* the scratch files of the temporary directory, by path
    procs        \* the concurrent runs: variant, name, remaining steps

flow == <<variant, request, pc, result, app, repos, outcome, calls,
          hosting, cluster, runs>>
aux == <<probe, tmp, procs>>
vars == <<flow, aux>>

----------------------------------------------------------------------------
(* Bounds *)

MaxRuns == 2

----------------------------------------------------------------------------
(* Generic helpers *)

None == <<>>
Some(v) == <<v>>
IsNone(o) == o = <<>>
Val(o) == o[1]

\* the probe has applied the operation op
Applied(op) == probe.op = op /\ ~IsNone(probe.res)

\* Exceptions: cls is the Python class, status the HTTP status of a
\* GithubException, msg the message text.
GithubException(status, msg) ==
    [cls |-> "GithubException", status |-> status, msg |-> msg]
OtherException(cls, msg) ==
    [cls |-> cls, status |-> "", msg |-> msg]

\* str(e)
StrExc(e) ==
    IF e.cls = "GithubException" THEN <<e.status, " ">> \o e.msg ELSE e.msg

\* Results of a call: a value or a raised exception
Ret(v) == [raised |-> FALSE, val |-> Some(v), exc |-> None]
Raise(e) == [raised |-> TRUE, val |-> None, exc |-> Some(e)]

----------------------------------------------------------------------------
(* Configuration (environment variables) *)

GithubUsername == "octo"             \* GITHUB_USERNAME, owner of the token
NodejsTemplatePath == "nodejs-template"
GitopsTemplatePath == "gitops-template"

----------------------------------------------------------------------------
(* Text *)

\* Text that the code inspects (requests, names) is a sequence of
\* characters; a literal the code only concatenates is one element.
Alphabet ==
    <<"a", "b", "c", "d", "e", "f", "g", "h", "i", "j", "k", "l", "m",
      "n", "o", "p", "q", "r", "s", "t", "u", "v", "w", "x", "y", "z">>
UpperAlphabet ==
    <<"A", "B", "C", "D", "E", "F", "G", "H", "I", "J", "K", "L", "M",
      "N", "O", "P", "Q", "R", "S", "T", "U", "V", "W", "X", "Y", "Z">>
LowerLetters == {Alphabet[i] : i \in 1..26}
UpperLetters == {UpperAlphabet[i] : i \in 1..26}
Digits == {"0", "1", "2", "3", "4", "5", "6", "7", "8", "9"}
Whitespace == {" ", "\t"}                          \* \s
Quote == "'"

\* str.lower()
Lower(s) ==
    [i \in 1..Len(s) |->
        IF s[i] \in UpperLetters
        THEN Alphabet[CHOOSE k \in 1..26 : UpperAlphabet[k] = s[i]]
        ELSE s[i]]

\* the character class [a-zA-Z0-9\-_]
IsNameTok == LowerLetters \cup UpperLetters \cup Digits \cup {"-", "_"}

\* w occurs in s at position i
HasAt(s, i, w) == i + Len(w) - 1 <= Len(s) /\ SubSeq(s, i, i + Len(w) - 1) = w

\* index of the last character of the longest run of characters of the
\* class C that starts at i (i - 1 when the run is empty): a greedy [C]+
RECURSIVE RunEnd(_, _, _)
RunEnd(s, i, C) ==
    IF i <= Len(s) /\ s[i] \in C THEN RunEnd(s, i + 1, C) ELSE i - 1

----------------------------------------------------------------------------
(* Requests and the LLM collaborator *)

\* The requests a run may be started with.
Requests == {
    <<"g", "o", " ", "c", "a", "l", "l", "e", "d", " ", "A">>,     \* go called A
    <<"d", "o", " ", "'", "a", "'", " ", "n", "o", "w">>,     \* do 'a' now
    <<"m", "a", "k", "e", " ", "i", "t">> }    \* make it

\* the default name of the function variant
NewAppAsMyApp == <<"m", "y", "-", "a", "p", "p">>

NewApp == <<"n", "e", "w", "-", "a", "p", "p">>    \* 'new-app'

\* What _call_openrouter_api can produce: an exception of the HTTP layer,
\* a response body without choices[0].message.content, or a content text
\* that is no JSON, JSON that is no object, or a JSON object (a field of
\* the object is None when the key is absent).
LlmOutcomes ==
    {[kind |-> k, obj |-> None] : k \in {"http_error", "bad_shape", "not_json", "json_list"}}
    \cup {[kind |-> "json_object", obj |-> Some(o)] :
            o \in {[name |-> Some(<<"a">>), description |-> Some(<<"service a">>),
                    language |-> Some("React"), author |-> None],
                   [name |-> None, description |-> None, language |-> None,
                    author |-> None]}}

AppInfo(name, description, language, author) ==
    [name |-> name, description |-> description,
     language |-> language, author |-> author]

\* re.search(pattern, request_lower) for the three name_patterns, leftmost
\* match; the result is the optional group(1).
\*   r'called\s+["\']?([a-zA-Z0-9\-_]+)["\']?'   (kw = called)
\*   r'named\s+["\']?([a-zA-Z0-9\-_]+)["\']?'    (kw = named)
\* KeywordMatchAt: the span <<first, last>> of group(1) for a match that
\* starts at i, or None
KeywordMatchAt(s, kw, i) ==
    IF ~HasAt(s, i, kw) THEN None
    ELSE LET w0 == i + Len(kw)
             w1 == RunEnd(s, w0, Whitespace)
             g0 == IF w1 + 1 <= Len(s) /\ s[w1 + 1] \in {Quote, "\""}
                   THEN w1 + 2 ELSE w1 + 1
             g1 == RunEnd(s, g0, IsNameTok)
         IN  IF w1 >= w0 /\ g1 >= g0 THEN Some(<<g0, g1>>) ELSE None

SearchKeyword(s, kw) ==
    LET hits == {i \in 1..Len(s) : ~IsNone(KeywordMatchAt(s, kw, i))}
    IN  IF hits = {} THEN None
        ELSE LET i == CHOOSE j \in hits : \A k \in hits : j <= k
                 g == Val(KeywordMatchAt(s, kw, i))
             IN  Some(SubSeq(s, g[1], g[2]))

\*   r'["\']([a-zA-Z0-9\-_]+)["\']'
SearchQuoted(s) ==
    LET End(i) == RunEnd(s, i + 1, IsNameTok)
        hits == {i \in 1..Len(s) :
                    /\ s[i] \in {Quote, "\""}
                    /\ End(i) >= i + 1
                    /\ End(i) + 1 <= Len(s) /\ s[End(i) + 1] \in {Quote, "\""}}
    IN  IF hits = {} THEN None
        ELSE LET i == CHOOSE j \in hits : \A k \in hits : j <= k
             IN  Some(SubSeq(s, i + 1, End(i)))

Called == <<"c", "a", "l", "l", "e", "d">>
Named == <<"n", "a", "m", "e", "d">>

\* a pattern list with 'named X' ahead of 'called X'
FallbackExtractionNamedFirst(req) ==
    LET request_lower == Lower(req)
        m1 == SearchKeyword(request_lower, Named)
        m2 == SearchKeyword(request_lower, Called)
        m3 == SearchQuoted(request_lower)
        app_name == IF ~IsNone(m1) THEN Val(m1)
                    ELSE IF ~IsNone(m2) THEN Val(m2)
                    ELSE IF ~IsNone(m3) THEN Val(m3)
                    ELSE NewApp
        description == <<"Application created from request: ">>
                       \o SubSeq(req, 1, IF Len(req) < 100 THEN Len(req) ELSE 100) \o <<"...">>
    IN  AppInfo(app_name, description, "NodeJS", "AI Agent")

\* OnboardingAgent._fallback_extraction
FallbackExtraction(req) ==
    LET request_lower == Lower(req)
        m1 == SearchKeyword(request_lower, Called)
        m2 == SearchKeyword(request_lower, Named)
        m3 == SearchQuoted(request_lower)
        app_name == IF ~IsNone(m1) THEN Val(m1)
                    ELSE IF ~IsNone(m2) THEN Val(m2)
                    ELSE IF ~IsNone(m3) THEN Val(m3)
                    ELSE NewApp
        description == <<"Application created from request: ">>
                       \o SubSeq(req, 1, IF Len(req) < 100 THEN Len(req) ELSE 100) \o <<"...">>
    IN  AppInfo(app_name, description, "NodeJS", "AI Agent")

\* _call_openrouter_api: a RequestException is logged and raised again, a
\* body without choices[0].message.content raises KeyError, otherwise the
\* content text is returned
CallOpenrouterApi(llm) ==
    CASE llm.kind = "http_error" ->
            Raise(OtherException("RequestException", <<"502 Server Error">>))
      [] llm.kind = "bad_shape" ->
            Raise(OtherException("KeyError", <<"'choices'">>))
      [] OTHER -> Ret(llm)

\* json.loads(response.strip())
JsonLoads(content) ==
    IF content.kind = "not_json"
    THEN Raise(OtherException("JSONDecodeError", <<"Expecting value">>))
    ELSE Ret(content)

\* the try block of extract_app_info: AppInfo built with dict.get defaults;
\* a JSON value that is no object has no get
ExtractTry(req, llm) ==
    LET response == CallOpenrouterApi(llm)
        app_data == JsonLoads(Val(response.val))
    IN  IF response.raised THEN response
        ELSE IF app_data.raised THEN app_data
        ELSE IF Val(app_data.val).kind # "json_object"
        THEN Raise(OtherException("AttributeError",
                                  <<"'list' object has no attribute 'get'">>))
        ELSE LET o == Val(Val(app_data.val).obj)
             IN  Ret(AppInfo(IF IsNone(o.name) THEN NewApp ELSE Val(o.name),
                             IF IsNone(o.description)
                                THEN <<"New application created by AI agent">>
                                ELSE Val(o.description),
                             IF IsNone(o.language) THEN "NodeJS" ELSE Val(o.language),
                             IF IsNone(o.author) THEN "AI Agent" ELSE Val(o.author)))

\* an except clause that names the HTTP layer's exception only
ExtractCatchesRequestOnly(e) == e.cls = "RequestException"

\* `except Exception` of extract_app_info
ExtractCatches(e) ==
    e.cls \in {"RequestException", "KeyError", "JSONDecodeError", "AttributeError"}

\* OnboardingAgent.extract_app_info: every exception of the try block
\* reaches the fallback
ExtractAppInfo(req, llm) ==
    LET t == ExtractTry(req, llm)
    IN  IF t.raised /\ ExtractCatches(Val(t.exc))
        THEN Ret(FallbackExtraction(req))
        ELSE t

----------------------------------------------------------------------------
(* The code-hosting provider *)

SourceRepoName(name) == name \o <<"-source">>     \* f"{name}-source"
GitopsRepoName(name) == name \o <<"-gitops">>     \* f"{name}-gitops"

\* clone_url the provider reports for a repository of the token's owner
CloneUrl(rn) == <<"https://github.com/", GithubUsername, "/">> \o rn \o <<".git">>

\* constructed URLs that leave out the -source / -gitops suffix
FallbackUrlWithoutSuffix(rn) ==
    <<"https://github.com/", GithubUsername, "/">> \o SubSeq(rn, 1, Len(rn) - 1) \o <<".git">>

\* the URLs _get_existing_repositories constructs when the lookup fails
FallbackUrl(rn) == <<"https://github.com/", GithubUsername, "/">> \o rn \o <<".git">>

\* Faults the environment may inject into one API call
ApiFaults == {"none", "api_error", "net_error"}

\* A repository of the provider: str(repo.id) and the content of its default
\* branch, the README of auto_init until something is pushed
NewRepo(rn) == [id |-> <<"id-">> \o rn, content |-> <<"README">>]

\* github.get_user()
GetUser(fault) ==
    CASE fault = "api_error" -> Raise(GithubException("401", <<"Bad credentials">>))
      [] fault = "net_error" -> Raise(OtherException("ConnectionError", <<"connection refused">>))
      [] OTHER -> Ret("user")

\* user.create_repo(name=rn, ...): [res, hosting]
CreateRepo(h, rn, fault) ==
    CASE fault = "api_error" ->
            [res |-> Raise(GithubException("500", <<"Server Error">>)), hosting |-> h]
      [] fault = "net_error" ->
            [res |-> Raise(OtherException("ConnectionError", <<"connection refused">>)),
             hosting |-> h]
      [] OTHER ->
            IF rn \in DOMAIN h
            THEN [res |-> Raise(GithubException("422", <<"name already exists on this account">>)),
                  hosting |-> h]
            ELSE [res |-> Ret([clone_url |-> CloneUrl(rn), id |-> NewRepo(rn).id]),
                  hosting |-> (rn :> NewRepo(rn)) @@ h]

\* user.get_repo(rn)
GetRepo(h, rn, fault) ==
    CASE fault = "api_error" -> Raise(GithubException("500", <<"Server Error">>))
      [] fault = "net_error" -> Raise(OtherException("ConnectionError", <<"connection refused">>))
      [] OTHER ->
            IF rn \in DOMAIN h
            THEN Ret([clone_url |-> CloneUrl(rn), id |-> h[rn].id])
            ELSE Raise(GithubException("404", <<"Not Found">>))

RepositoryInfo(su, gu, sid, gid) ==
    [source_repo_url |-> su, gitops_repo_url |-> gu,
     source_repo_id |-> sid, gitops_repo_id |-> gid]

\* OnboardingAgent._get_existing_repositories: [res, path]
GetExistingRepositories(h, app_name, f) ==
    LET u == GetUser(f.luser)
        s == GetRepo(h, SourceRepoName(app_name), f.lsrc)
        g == GetRepo(h, GitopsRepoName(app_name), f.lops)
        first == IF u.raised THEN u ELSE IF s.raised THEN s ELSE g
    IN  IF ~first.raised
        THEN [res |-> Ret(RepositoryInfo(Val(s.val).clone_url, Val(g.val).clone_url,
                                         Val(s.val).id, Val(g.val).id)),
              path |-> "lookup"]
        ELSE IF Val(first.exc).cls = "GithubException"
        THEN [res |-> Ret(RepositoryInfo(FallbackUrl(SourceRepoName(app_name)),
                                         FallbackUrl(GitopsRepoName(app_name)),
                                         <<"unknown">>, <<"unknown">>)),
              path |-> "fallback"]
        ELSE [res |-> first, path |-> "lookup_raised"]

\* a create_github_repo that takes the lookup path on every GithubException
CreateGithubRepoSwallowing(h, app_info, f) ==
    LET u  == GetUser(f.user)
        c1 == CreateRepo(h, SourceRepoName(app_info.name), f.src)
        c2 == CreateRepo(c1.hosting, GitopsRepoName(app_info.name), f.ops)
        first == IF u.raised THEN u ELSE IF c1.res.raised THEN c1.res ELSE c2.res
        h1 == IF u.raised THEN h ELSE IF c1.res.raised THEN c1.hosting ELSE c2.hosting
    IN  IF ~first.raised
        THEN [res |-> Ret(RepositoryInfo(Val(c1.res.val).clone_url, Val(c2.res.val).clone_url,
                                         Val(c1.res.val).id, Val(c2.res.val).id)),
              hosting |-> h1, path |-> "created"]
        ELSE IF Val(first.exc).cls = "GithubException"
        THEN LET l == GetExistingRepositories(h1, app_info.name, f)
             IN  [res |-> l.res, hosting |-> h1, path |-> l.path]
        ELSE [res |-> first, hosting |-> h1, path |-> "other_raised"]

\* OnboardingAgent.create_github_repo: [res, hosting, path]
CreateGithubRepo(h, app_info, f) ==
    LET u  == GetUser(f.user)
        c1 == CreateRepo(h, SourceRepoName(app_info.name), f.src)
        c2 == CreateRepo(c1.hosting, GitopsRepoName(app_info.name), f.ops)
        \* the first call of the try block that raised, and the provider
        \* state at that moment
        first == IF u.raised THEN u ELSE IF c1.res.raised THEN c1.res ELSE c2.res
        h1 == IF u.raised THEN h ELSE IF c1.res.raised THEN c1.hosting ELSE c2.hosting
    IN  IF ~first.raised
        THEN [res |-> Ret(RepositoryInfo(Val(c1.res.val).clone_url, Val(c2.res.val).clone_url,
                                         Val(c1.res.val).id, Val(c2.res.val).id)),
              hosting |-> h1, path |-> "created"]
        ELSE IF Val(first.exc).cls = "GithubException"
        THEN IF Val(first.exc).status = "422"
             THEN LET l == GetExistingRepositories(h1, app_info.name, f)
                  IN  [res |-> l.res, hosting |-> h1, path |-> l.path]
             ELSE [res |-> first, hosting |-> h1, path |-> "api_raised"]
        ELSE [res |-> first, hosting |-> h1, path |-> "other_raised"]

----------------------------------------------------------------------------
(* Template population (OnboardingAgent) *)

\* repo_url.split('/')[-1].replace('.git', '')
RepoNameOfUrl(url) ==
    LET IsNotGit(t) == t # ".git"
        idx == {i \in 1..Len(url) : url[i] = "/"}
        last == IF idx = {} THEN 0 ELSE CHOOSE i \in idx : \A j \in idx : j <= i
    IN  SelectSeq(SubSeq(url, last + 1, Len(url)), IsNotGit)

\* Scratch files: the temporary directory as a function from paths to
\* contents.  tempfile picks a name that is not in use.
NoFiles == [path \in {} |-> <<>>]
TempIds == {"k1", "k2", "k3"}
TempDir(id) == <<"/tmp/tmp", id>>                 \* tempfile.TemporaryDirectory()
TempManifest(id) == <<"/tmp/tmp", id, ".yaml">>   \* NamedTemporaryFile(suffix='.yaml')

IsUnder(path, dir) ==
    \/ path = dir
    \/ Len(path) > Len(dir) /\ SubSeq(path, 1, Len(dir) + 1) = dir \o <<"/">>
WriteFile(files, path, content) ==
    [p \in DOMAIN files \cup {path} |-> IF p = path THEN content ELSE files[p]]
\* rm -rf dir, shutil.rmtree(dir), os.unlink(file)
RemoveTree(files, dir) ==
    [p \in {q \in DOMAIN files : ~IsUnder(q, dir)} |-> files[p]]

\* The point at which the environment makes one populate call fail
PopulateFaults == [fail : {"none", "clone", "copy", "config", "add", "commit", "push"}, tmpl_exists : BOOLEAN]

\* git clone repo_url: succeeds when the URL names a repository of the provider
CloneOk(h, repo_url, f) ==
    /\ f.fail # "clone"
    /\ RepoNameOfUrl(repo_url) \in DOMAIN h
    /\ repo_url = CloneUrl(RepoNameOfUrl(repo_url))

\* Template file contents: a sequence of items, each a literal text, a
\* placeholder {{ name }}, an attribute lookup {{ name.attr }} or a
\* malformed tag
Text(v) == [k |-> "text", v |-> <<v>>]
Var(n) == [k |-> "var", v |-> <<n>>]

\* the unresolved placeholders of a content
Placeholders(content) ==
    {i \in 1..Len(content) : content[i].k \in {"var", "attr", "bad"}}

WorkflowTemplatePath == "workflow-template"
BrokenTemplatePath == "broken-template"

\* The template directories: file names (stem and extensions) and contents
TemplateTree(template_path) ==
    CASE template_path \in {WorkflowTemplatePath} ->
            (<<"ci", ".yml">> :> <<Var("appName"), Text("token:"), [k |-> "attr", v |-> <<"secrets.TOKEN">>]>>)
            @@ (<<"compose", ".yml">> :> <<Text("service:"), Var("appName")>>)
            @@ (<<"README", ".md">> :> <<Text("# "), Var("appName"), Var("license")>>)
            @@ (<<"logo", ".png">> :> <<Text("PNG"), Var("appName")>>)
      [] template_path \in {BrokenTemplatePath} ->
            (<<"index", ".js">> :> <<[k |-> "bad", v |-> <<"{%">>], Var("appName")>>)
            @@ (<<"app", ".env.example">> :> <<Text("APP="), Var("appName")>>)
      [] template_path \in {"gitops-template",
                            "../cnoe-stacks/nodejs-gitops-template"} ->
            (<<"deployment", ".yaml">> :>
                <<Var("appName"), Text("image:"), Var("imageName"), Text(":"),
                  Var("imageTag"), Text("host:"), Var("ingressHost")>>)
      [] OTHER ->
            (<<"package", ".json">> :>
                <<Text("name:"), Var("appName"), Text("description:"),
                  Var("description"), Text("repository:"), Var("repositoryUrl")>>)
            @@ (<<"Dockerfile">> :> <<Text("FROM node")>>)

\* the keyword arguments of template.render in _process_template_file
Context(app_info) ==
    [appName |-> app_info.name,
     description |-> app_info.description,
     language |-> <<app_info.language>>,
     author |-> <<app_info.author>>,
     repositoryUrl |-> <<"https://github.com/", GithubUsername, "/">>
                         \o app_info.name \o <<"-source">>,
     imageName |-> <<GithubUsername, "/">> \o app_info.name,
     imageTag |-> <<"latest">>,
     ingressHost |-> app_info.name \o <<".local">>]

\* env.from_string(content).render(**ctx): a malformed tag raises
\* TemplateSyntaxError, an attribute of an undefined name raises
\* UndefinedError, an undefined name renders as the empty string
RenderTemplate(content, ctx) ==
    IF \E i \in 1..Len(content) : content[i].k = "bad"
    THEN Raise(OtherException("TemplateSyntaxError", <<"unexpected end of template">>))
    ELSE IF \E i \in 1..Len(content) : content[i].k = "attr"
    THEN Raise(OtherException("UndefinedError", <<"'secrets' is undefined">>))
    ELSE Ret([i \in 1..Len(content) |->
                IF content[i].k = "var"
                THEN [k |-> "text",
                      v |-> IF content[i].v[1] \in DOMAIN ctx
                            THEN ctx[content[i].v[1]] ELSE <<>>]
                ELSE content[i]])

\* _should_process_as_template: filename.endswith(ext) for a listed ext
TemplateExtensions == {".js", ".json", ".md", ".yaml", ".yml", ".env.example"}
ShouldProcessAsTemplateWithoutYml(filename) ==
    filename[Len(filename)] \in TemplateExtensions \ {".yml"}
ShouldProcessAsTemplate(filename) ==
    filename[Len(filename)] \in TemplateExtensions

\* a _process_template_file without the except clause
ProcessTemplateFileUncaught(content, app_info) ==
    RenderTemplate(content, Context(app_info))

\* _process_template_file: the destination content; when rendering raises
\* the except clause copies the source file as it is
ProcessTemplateFile(content, app_info) ==
    LET r == RenderTemplate(content, Context(app_info))
    IN  IF r.raised THEN Ret(content) ELSE r

\* one file of the walk: rendered, or copied by shutil.copy2
CopyTemplateFile(filename, content, app_info) ==
    IF ShouldProcessAsTemplate(filename)
    THEN ProcessTemplateFile(content, app_info)
    ELSE Ret(content)

\* the files the template tree renders to for an application
Rendered(template_path, app_info) ==
    LET src == TemplateTree(template_path)
    IN  [n \in DOMAIN src |-> Val(CopyTemplateFile(n, src[n], app_info).val)]

\* _copy_template_files: the working tree after the walk (os.walk of a
\* missing directory yields nothing); an exception of one file ends the walk
CopyTemplateFiles(tree, template_path, app_info, f) ==
    LET src == TemplateTree(template_path)
        failed == {n \in DOMAIN src : CopyTemplateFile(n, src[n], app_info).raised}
    IN  IF ~f.tmpl_exists THEN Ret(tree)
        ELSE IF failed # {}
        THEN CopyTemplateFile(CHOOSE n \in failed : TRUE,
                              src[CHOOSE n \in failed : TRUE], app_info)
        ELSE Ret(<<"README", Rendered(template_path, app_info)>>)

\* a push whose exit status is not checked
CommitAndPushIgnoringPush(cloned, tree, f) ==
    /\ f.fail \notin {"config", "add", "commit"}
    /\ tree # cloned

\* _commit_and_push on a working tree cloned as `cloned`: TRUE when config,
\* add, commit and push all exit 0; git commit exits 1 with nothing to commit
CommitAndPushOk(cloned, tree, f) ==
    /\ f.fail \notin {"config", "add", "commit", "push"}
    /\ tree # cloned

\* OnboardingAgent.populate_repo_from_stack, run with the scratch files
\* `files` and the fresh directory temp_dir:
\* [res, hosting, clone_attempted, cloned, tmp].  The body runs inside
\* `with tempfile.TemporaryDirectory()`, which removes temp_dir on every exit.
PopulateRepoFromStack(files, temp_dir, h, repo_url, template_path, app_info, f) ==
    LET rn == RepoNameOfUrl(repo_url)
        repo_path == temp_dir \o <<"/">> \o rn
        made == WriteFile(files, temp_dir, <<"dir">>)
        body ==
            IF ~CloneOk(h, repo_url, f)
            THEN [res |-> Ret(FALSE), hosting |-> h, clone_attempted |-> TRUE,
                  cloned |-> FALSE, tmp |-> made]
            ELSE LET cloned == h[rn].content
                     copied == CopyTemplateFiles(cloned, template_path, app_info, f)
                     tree == Val(copied.val)
                 IN  IF f.fail = "copy" \/ copied.raised
                     THEN [res |-> Ret(FALSE), hosting |-> h, clone_attempted |-> TRUE,
                           cloned |-> TRUE, tmp |-> WriteFile(made, repo_path, cloned)]
                     ELSE IF ~CommitAndPushOk(cloned, tree, f)
                     THEN [res |-> Ret(FALSE), hosting |-> h, clone_attempted |-> TRUE,
                           cloned |-> TRUE, tmp |-> WriteFile(made, repo_path, tree)]
                     ELSE [res |-> Ret(TRUE),
                           hosting |-> [h EXCEPT ![rn].content = tree],
                           clone_attempted |-> TRUE,
                           cloned |-> TRUE, tmp |-> WriteFile(made, repo_path, tree)]
    IN  [body EXCEPT !.tmp = RemoveTree(@, temp_dir)]

----------------------------------------------------------------------------
(* Deployment registration (OnboardingAgent) *)

RegisterFails == {"none", "kube_config", "write", "apply_nonzero", "apply_other"}

\* _generate_argocd_manifest: the fields that vary
GenerateArgocdManifest(app_info, gitops_repo_url) ==
    [name |-> app_info.name, label |-> app_info.name, repoURL |-> gitops_repo_url]

\* _apply_kubernetes_manifest, run with the scratch files `files` and the
\* fresh file name manifest_file: [res, cluster, tmp].  The file is created
\* and written before the try block; the finally clause of the try block
\* unlinks it.
ApplyKubernetesManifest(files, manifest_file, cl, manifest, fail) ==
    LET written == WriteFile(files, manifest_file, manifest)
    IN  CASE fail = "write" ->
                [res |-> Raise(OtherException("OSError", <<"No space left on device">>)),
                 cluster |-> cl, tmp |-> WriteFile(files, manifest_file, <<>>)]
          [] fail = "apply_nonzero" ->
                [res |-> Ret(FALSE), cluster |-> cl,
                 tmp |-> RemoveTree(written, manifest_file)]
          [] fail = "apply_other" ->
                [res |-> Raise(OtherException("FileNotFoundError", <<"kubectl">>)),
                 cluster |-> cl, tmp |-> RemoveTree(written, manifest_file)]
          [] OTHER ->
                [res |-> Ret(TRUE), cluster |-> cl \cup {manifest},
                 tmp |-> RemoveTree(written, manifest_file)]

\* OnboardingAgent.create_argocd_application: [res, cluster, tmp]; every
\* exception of load_kube_config and of _apply_kubernetes_manifest gives False
CreateCatchesCalledProcessErrorOnly(e) == e.cls = "CalledProcessError"
\* except Exception
CreateCatches(e) == e.cls = e.cls

CreateArgocdApplication(files, manifest_file, cl, app_info, gitops_repo_url, fail) ==
    LET body ==
            IF fail = "kube_config"
            THEN [res |-> Raise(OtherException("ConfigException",
                                               <<"Invalid kube-config file">>)),
                  cluster |-> cl, tmp |-> files]
            ELSE ApplyKubernetesManifest(files, manifest_file, cl,
                     GenerateArgocdManifest(app_info, gitops_repo_url), fail)
    IN  [res |-> IF body.res.raised /\ CreateCatches(Val(body.res.exc))
                 THEN Ret(FALSE) ELSE body.res,
         cluster |-> body.cluster, tmp |-> body.tmp]

----------------------------------------------------------------------------
(* The function variant (ai-onboarding-agent/agent.py): stages *)

FuncSourceTemplatePath == "../cnoe-stacks/nodejs-template/app-source"

\* What the chat completion can produce: an exception, or a content text
FuncLlmOutcomes ==
    {[kind |-> "error", content |-> <<>>]}
    \cup {[kind |-> "content", content |-> c] :
             c \in {<<" ", "A", " ">>, <<"!", " ">>}}

\* str.strip(chars)
RECURSIVE Strip(_, _)
Strip(s, C) ==
    IF s = <<>> THEN s
    ELSE IF Head(s) \in C THEN Strip(Tail(s), C)
    ELSE IF s[Len(s)] \in C THEN Strip(SubSeq(s, 1, Len(s) - 1), C)
    ELSE s

\* re.sub(r'-+', '-', s)
RECURSIVE CollapseHyphens(_)
CollapseHyphens(s) ==
    IF Len(s) < 2 THEN s
    ELSE IF s[1] = "-" /\ s[2] = "-" THEN CollapseHyphens(Tail(s))
    ELSE <<Head(s)>> \o CollapseHyphens(Tail(s))

\* content.strip().lower(), re.sub(r'[^a-z0-9-]', '', ..),
\* re.sub(r'-+', '-', ..) and strip('-')
CleanName(s) ==
    LET InClass(c) == c \in LowerLetters \cup Digits \cup {"-"}
    IN  Strip(CollapseHyphens(SelectSeq(Lower(Strip(s, Whitespace)), InClass)), {"-"})

\* re.search(r'kw\s+([a-zA-Z0-9-]+)', request, re.IGNORECASE)
SearchAfter(s, kw) ==
    LET l == Lower(s)
        W1(i) == RunEnd(s, i + Len(kw), Whitespace)
        G1(i) == RunEnd(s, W1(i) + 1, (LowerLetters \cup UpperLetters \cup Digits \cup {"-"}))
        hits == {i \in 1..Len(s) :
                    HasAt(l, i, kw) /\ W1(i) >= i + Len(kw) /\ G1(i) >= W1(i) + 1}
    IN  IF hits = {} THEN None
        ELSE LET i == CHOOSE j \in hits : \A k \in hits : j <= k
             IN  Some(SubSeq(s, W1(i) + 1, G1(i)))

\* re.search(r'([a-zA-Z0-9-]+)\s+kw', request, re.IGNORECASE)
SearchBefore(s, kw) ==
    LET l == Lower(s)
        G1(i) == RunEnd(s, i, (LowerLetters \cup UpperLetters \cup Digits \cup {"-"}))
        W1(i) == RunEnd(s, G1(i) + 1, Whitespace)
        hits == {i \in 1..Len(s) :
                    G1(i) >= i /\ W1(i) >= G1(i) + 1 /\ HasAt(l, W1(i) + 1, kw)}
    IN  IF hits = {} THEN None
        ELSE LET i == CHOOSE j \in hits : \A k \in hits : j <= k
             IN  Some(SubSeq(s, i, G1(i)))

\* extract_app_name_from_request
ExtractAppNameFromRequest(req, llm) ==
    LET cleaned == IF llm.kind = "content" THEN CleanName(llm.content) ELSE <<>>
        ms == << SearchAfter(req, Called), SearchAfter(req, Named),
                 SearchBefore(req, <<"s", "e", "r", "v", "i", "c", "e">>), SearchBefore(req, <<"a", "p", "p">>),
                 SearchAfter(req, <<"d", "e", "p", "l", "o", "y">>), SearchAfter(req, <<"c", "r", "e", "a", "t", "e">>) >>
        hit == {i \in 1..Len(ms) : ~IsNone(ms[i])}
    IN  IF cleaned # <<>> THEN cleaned
        ELSE IF hit = {} THEN <<"m", "y", "-", "a", "p", "p">>
        ELSE Lower(Val(ms[CHOOSE i \in hit : \A j \in hit : i <= j]))

\* The fault records in which every injected fault makes a difference: a fault
\* of a call the provisioning never reaches, or one that changes nothing, is
\* not drawn, the record without it gives the same call
ProvisionFaults(h, app_info) ==
    {f \in [user : ApiFaults, src : ApiFaults, ops : ApiFaults,
                luser : ApiFaults, lsrc : ApiFaults, lops : ApiFaults] :
        \A k \in DOMAIN f :
            f[k] # "none" =>
                CreateGithubRepo(h, app_info, [f EXCEPT ![k] = "none"])
                    # CreateGithubRepo(h, app_info, f)}

\* create_github_repo(app_name): get_user() is called before the try block;
\* any exception of the two create_repo calls gives the constructed URLs
FuncCreateGithubRepo(h, app_name, f) ==
    LET u  == GetUser(f.user)
        c1 == CreateRepo(h, SourceRepoName(app_name), f.src)
        c2 == CreateRepo(c1.hosting, GitopsRepoName(app_name), f.ops)
    IN  IF u.raised
        THEN [res |-> u, hosting |-> h]
        ELSE IF c1.res.raised
        THEN [res |-> Ret([source_repo_url |-> FallbackUrl(SourceRepoName(app_name)),
                           gitops_repo_url |-> FallbackUrl(GitopsRepoName(app_name))]),
              hosting |-> c1.hosting]
        ELSE IF c2.res.raised
        THEN [res |-> Ret([source_repo_url |-> FallbackUrl(SourceRepoName(app_name)),
                           gitops_repo_url |-> FallbackUrl(GitopsRepoName(app_name))]),
              hosting |-> c2.hosting]
        ELSE [res |-> Ret([source_repo_url |-> Val(c1.res.val).clone_url,
                           gitops_repo_url |-> Val(c2.res.val).clone_url]),
              hosting |-> c2.hosting]

\* the fixed scratch paths of the function variant
FuncCloneDir(repo_name) == <<"/tmp/">> \o repo_name                    \* f"/tmp/{repo_name}"
FuncManifestFile(app_name) == <<"/tmp/">> \o app_name \o <<"-argocd.yaml">>

FuncPopulateFaults == [fail : {"none", "clone", "copy", "config", "add", "commit", "push"} \ {"config"}, tmpl_exists : BOOLEAN]

\* Template(content).render(appName=app_name, description=description) of
\* every file of the walk
FuncRendered(template_path, app_name, description) ==
    LET src == TemplateTree(template_path)
    IN  [n \in DOMAIN src |->
            Val(RenderTemplate(src[n], [appName |-> app_name,
                                        description |-> description]).val)]

CalledProcessError(cmd) == OtherException("CalledProcessError", <<cmd, " returned non-zero exit status">>)

\* populate_repo_from_stack(repo_url, template_path, app_name, description):
\* the subprocess calls run with check=True outside any try block, the
\* template path is tested after the clone
\* [res, hosting, clone_attempted, tmp]: the clone directory is removed
\* before the clone and left in place afterwards
FuncPopulateRepoFromStack(files, h, repo_url, template_path, app_name, description, f) ==
    LET rn == RepoNameOfUrl(repo_url)
        dir == FuncCloneDir(rn)
        removed == RemoveTree(files, dir)
    IN  IF ~CloneOk(h, repo_url, f)
        THEN [res |-> Raise(CalledProcessError("git clone")), hosting |-> h,
              clone_attempted |-> TRUE, tmp |-> removed]
        ELSE LET cloned == h[rn].content
                 src == TemplateTree(template_path)
                 ctx == [appName |-> app_name, description |-> description]
                 failed == {n \in DOMAIN src : RenderTemplate(src[n], ctx).raised}
                 tree == <<"README", FuncRendered(template_path, app_name, description)>>
             IN  IF ~f.tmpl_exists
                 THEN [res |-> Ret(FALSE), hosting |-> h,
                       clone_attempted |-> TRUE, tmp |-> WriteFile(removed, dir, cloned)]
                 ELSE IF f.fail = "copy"
                 THEN [res |-> Raise(OtherException("OSError", <<"Permission denied">>)),
                       hosting |-> h,
                       clone_attempted |-> TRUE, tmp |-> WriteFile(removed, dir, cloned)]
                 ELSE IF failed # {}
                 THEN [res |-> RenderTemplate(src[CHOOSE n \in failed : TRUE], ctx),
                       hosting |-> h,
                       clone_attempted |-> TRUE, tmp |-> WriteFile(removed, dir, cloned)]
                 ELSE IF f.fail \in {"add", "commit", "push"}
                 THEN [res |-> Raise(CalledProcessError("git " \o f.fail)), hosting |-> h,
                       clone_attempted |-> TRUE, tmp |-> WriteFile(removed, dir, tree)]
                 ELSE IF tree = cloned
                 THEN [res |-> Raise(CalledProcessError("git commit")), hosting |-> h,
                       clone_attempted |-> TRUE, tmp |-> WriteFile(removed, dir, tree)]
                 ELSE [res |-> Ret(TRUE), hosting |-> [h EXCEPT ![rn].content = tree],
                       clone_attempted |-> TRUE, tmp |-> WriteFile(removed, dir, tree)]

\* create_argocd_application(app_name, gitops_repo_url): only the
\* CalledProcessError of kubectl apply is caught
\* [res, cluster, tmp]: the manifest is written to a path fixed by the
\* application name and never removed
FuncCreateArgocdApplication(files, cl, app_name, gitops_repo_url, fail) ==
    LET manifest == [name |-> app_name, label |-> app_name, repoURL |-> gitops_repo_url]
        written == WriteFile(files, FuncManifestFile(app_name), manifest)
    IN  CASE fail = "none" ->
                [res |-> Ret(TRUE), cluster |-> cl \cup {manifest}, tmp |-> written]
          [] fail = "apply_nonzero" ->
                [res |-> Ret(FALSE), cluster |-> cl, tmp |-> written]
          [] fail = "kube_config" ->
                [res |-> Raise(OtherException("ConfigException",
                                              <<"Invalid kube-config file">>)),
                 cluster |-> cl, tmp |-> files]
          [] fail = "write" ->
                [res |-> Raise(OtherException("OSError", <<"No space left on device">>)),
                 cluster |-> cl, tmp |-> WriteFile(files, FuncManifestFile(app_name), <<>>)]
          [] OTHER ->
                [res |-> Raise(OtherException("FileNotFoundError", <<"kubectl">>)),
                 cluster |-> cl, tmp |-> written]

----------------------------------------------------------------------------
(* OnboardingAgent.run_onboarding_flow *)

ResultKeys == {"success", "app_info", "repositories", "argocd_created",
               "error", "timestamp"}

InitialResult(n) ==
    [success |-> FALSE, app_info |-> None, repositories |-> None,
     argocd_created |-> FALSE, error |-> None,
     timestamp |-> <<"t", ToString(n)>>]

NoResult == [success |-> FALSE]

NoOutcome == [kind |-> "none", value |-> None]
Returned(v) == [kind |-> "returned", value |-> Some(v)]
Raised(e) == [kind |-> "raised", value |-> Some(e)]

\* One entry of the call log: the stage, its argument, what the environment
\* did during the call (recorded for the provisioning stage), and what the
\* call returned or raised
Call(stage, arg, env, out) == [stage |-> stage, arg |-> arg, env |-> env, out |-> out]

\* an except clause that names GithubException only
FlowCatchesGithubOnly(e) == e.cls = "GithubException"

\* `except Exception`: every exception class of the model derives from Exception
FlowCatches(e) == e.cls \in {"GithubException", "ConnectionError", "Exception"}

\* an except clause that builds a fresh record for the failure
AgentFailReset(e) ==
    /\ result' = [InitialResult(runs) EXCEPT !.error = Some(StrExc(e))]
    /\ outcome' = Returned(result')

\* The except clause of run_onboarding_flow, or the propagation of e
AgentFail(e) ==
    IF FlowCatches(e)
    THEN /\ result' = [result EXCEPT !.error = Some(StrExc(e))]
         /\ outcome' = Returned(result')
    ELSE /\ result' = result
         /\ outcome' = Raised(e)

StartRun ==
    /\ pc = "idle"
    /\ runs < MaxRuns
    /\ \E v \in {"agent", "func"}, r \in Requests :
          /\ variant' = v
          /\ request' = r
          /\ result' = IF v = "agent" THEN InitialResult(runs + 1) ELSE NoResult
    /\ runs' = runs + 1
    /\ pc' = "extract"
    /\ app' = None
    /\ repos' = None
    /\ outcome' = NoOutcome
    /\ calls' = <<>>
    /\ UNCHANGED <<hosting, cluster, aux>>

AgentExtract ==
    /\ pc = "extract" /\ variant = "agent"
    /\ \E llm \in LlmOutcomes :
          LET r == ExtractAppInfo(request, llm)
          IN  /\ calls' = Append(calls, Call("extract", request, <<>>, r))
              /\ IF r.raised
                 THEN /\ AgentFail(Val(r.exc))
                      /\ pc' = "done"
                      /\ app' = app
                 ELSE /\ app' = r.val
                      /\ result' = [result EXCEPT !.app_info = r.val]
                      /\ pc' = "provision"
                      /\ outcome' = outcome
    /\ UNCHANGED <<variant, request, repos, hosting, cluster, runs, aux>>

AgentProvision ==
    /\ pc = "provision" /\ variant = "agent"
    /\ \E f \in ProvisionFaults(hosting, Val(app)) :
          LET r == CreateGithubRepo(hosting, Val(app), f)
          IN  /\ hosting' = r.hosting
              /\ calls' = Append(calls, Call("create_github_repo", <<Val(app).name>>,
                                         [faults |-> f, pre |-> DOMAIN hosting,
                                          post |-> DOMAIN r.hosting, path |-> r.path],
                                         r.res))
              /\ IF r.res.raised
                 THEN /\ AgentFail(Val(r.res.exc))
                      /\ pc' = "done"
                      /\ repos' = repos
                 ELSE /\ repos' = r.res.val
                      /\ result' = [result EXCEPT !.repositories = r.res.val]
                      /\ pc' = "populate_source"
                      /\ outcome' = outcome
    /\ UNCHANGED <<variant, request, app, cluster, runs, aux>>

\* Steps 3 and 4: one populate_repo_from_stack call and the test of its result
AgentPopulate(at, url, template_path, failure, next) ==
    /\ pc = at /\ variant = "agent"
    /\ \E f \in PopulateFaults :
          LET r == PopulateRepoFromStack(NoFiles, TempDir("k1"), hosting, url, template_path,
                                         Val(app), f)
          IN  /\ hosting' = r.hosting
              /\ calls' = Append(calls, Call("populate_repo_from_stack", url,
                                             [faults |-> f,
                                              pre |-> IF r.cloned
                                                      THEN Some(hosting[RepoNameOfUrl(url)].content)
                                                      ELSE None],
                                             r.res))
              /\ IF Val(r.res.val)
                 THEN /\ pc' = next
                      /\ UNCHANGED <<result, outcome>>
                 ELSE /\ AgentFail(failure)
                      /\ pc' = "done"
    /\ UNCHANGED <<variant, request, app, repos, cluster, runs, aux>>

\* step 3 populating the gitops repository
AgentPopulateSourceSwapped ==
    AgentPopulate("populate_source", Val(repos).gitops_repo_url, GitopsTemplatePath,
                  OtherException("Exception", <<"Failed to populate GitOps repository">>), "populate_gitops")

AgentPopulateSource ==
    AgentPopulate("populate_source", Val(repos).source_repo_url, NodejsTemplatePath,
                  OtherException("Exception", <<"Failed to populate source repository">>), "populate_gitops")

\* step 4 without the test of gitops_success
AgentPopulateGitopsUnchecked ==
    /\ pc = "populate_gitops" /\ variant = "agent"
    /\ \E f \in PopulateFaults :
          LET url == Val(repos).gitops_repo_url
              r == PopulateRepoFromStack(NoFiles, TempDir("k1"), hosting, url,
                                         GitopsTemplatePath, Val(app), f)
          IN  /\ hosting' = r.hosting
              /\ calls' = Append(calls, Call("populate_repo_from_stack", url, <<>>, r.res))
    /\ pc' = "register"
    /\ UNCHANGED <<variant, request, result, app, repos, outcome, cluster, runs, aux>>

AgentPopulateGitops ==
    AgentPopulate("populate_gitops", Val(repos).gitops_repo_url, GitopsTemplatePath,
                  OtherException("Exception", <<"Failed to populate GitOps repository">>), "register")

AgentRegister ==
    /\ pc = "register" /\ variant = "agent"
    /\ \E fail \in RegisterFails :
          LET url == Val(repos).gitops_repo_url
              r == CreateArgocdApplication(NoFiles, TempManifest("k1"), cluster, Val(app), url, fail)
          IN  /\ cluster' = r.cluster
              /\ calls' = Append(calls, Call("create_argocd_application", url, <<>>, r.res))
              /\ result' = [result EXCEPT !.argocd_created = Val(r.res.val),
                                          !.success = TRUE]
              /\ outcome' = Returned(result')
    /\ pc' = "done"
    /\ UNCHANGED <<variant, request, app, repos, hosting, runs, aux>>

----------------------------------------------------------------------------
(* run_onboarding_flow of the function variant: it has no try block, so an
   exception of a stage ends the flow by propagating to the caller *)

FuncExtract ==
    /\ pc = "extract" /\ variant = "func"
    /\ \E llm \in FuncLlmOutcomes :
          LET a == ExtractAppNameFromRequest(request, llm)
          IN  /\ app' = Some(a)
              /\ calls' = Append(calls, Call("extract", request, <<>>, Ret(a)))
    /\ pc' = "provision"
    /\ UNCHANGED <<variant, request, result, repos, outcome, hosting, cluster, runs, aux>>

FuncProvision ==
    /\ pc = "provision" /\ variant = "func"
    /\ \E f \in [user : ApiFaults, src : ApiFaults, ops : ApiFaults] :
          LET r == FuncCreateGithubRepo(hosting, Val(app), f)
          IN  /\ hosting' = r.hosting
              /\ calls' = Append(calls, Call("create_github_repo", <<Val(app)>>,
                                         [faults |-> f, pre |-> DOMAIN hosting,
                                          post |-> DOMAIN r.hosting],
                                         r.res))
              /\ IF r.res.raised
                 THEN /\ outcome' = Raised(Val(r.res.exc))
                      /\ pc' = "done"
                      /\ repos' = repos
                 ELSE /\ repos' = r.res.val
                      /\ pc' = "populate_source"
                      /\ outcome' = outcome
    /\ UNCHANGED <<variant, request, result, app, cluster, runs, aux>>

FuncPopulate(at, url, template_path, description, next) ==
    /\ pc = at /\ variant = "func"
    /\ \E f \in FuncPopulateFaults :
          LET r == FuncPopulateRepoFromStack(NoFiles, hosting, url, template_path, Val(app),
                                             description, f)
          IN  /\ hosting' = r.hosting
              /\ calls' = Append(calls, Call("populate_repo_from_stack", url, <<>>, r.res))
              /\ IF r.res.raised
                 THEN outcome' = Raised(Val(r.res.exc)) /\ pc' = "done"
                 ELSE IF Val(r.res.val)
                 THEN outcome' = outcome /\ pc' = next
                 ELSE outcome' = Returned(FALSE) /\ pc' = "done"
    /\ UNCHANGED <<variant, request, result, app, repos, cluster, runs, aux>>

FuncPopulateSource ==
    FuncPopulate("populate_source", Val(repos).source_repo_url, FuncSourceTemplatePath,
                 <<"NodeJS application for ">> \o Val(app), "populate_gitops")

FuncPopulateGitops ==
    FuncPopulate("populate_gitops", Val(repos).gitops_repo_url, "../cnoe-stacks/nodejs-gitops-template",
                 <<"GitOps configuration for ">> \o Val(app), "register")

FuncRegister ==
    /\ pc = "register" /\ variant = "func"
    /\ \E fail \in RegisterFails :
          LET url == Val(repos).gitops_repo_url
              r == FuncCreateArgocdApplication(NoFiles, cluster, Val(app), url, fail)
          IN  /\ cluster' = r.cluster
              /\ calls' = Append(calls, Call("create_argocd_application", url, <<>>, r.res))
              /\ outcome' = IF r.res.raised THEN Raised(Val(r.res.exc))
                            ELSE Returned(Val(r.res.val))
    /\ pc' = "done"
    /\ UNCHANGED <<variant, request, result, app, repos, hosting, runs, aux>>

\* the caller takes the outcome and the locals of the run are discarded; the
\* provider and the cluster keep what the run did to them
Finish ==
    /\ pc = "done"
    /\ pc' = "idle"
    /\ variant' = "agent"
    /\ request' = <<>>
    /\ result' = NoResult
    /\ app' = None
    /\ repos' = None
    /\ outcome' = NoOutcome
    /\ calls' = <<>>
    /\ UNCHANGED <<hosting, cluster, runs, aux>>

----------------------------------------------------------------------------

\* Repositories that may exist at the provider before the first run
PreExisting ==
    {[rn \in S |-> NewRepo(rn)] :
        S \in SUBSET {SourceRepoName(<<"a">>), GitopsRepoName(<<"a">>)}}

\* no run has started
Idle ==
    /\ variant = "agent"
    /\ request = <<>>
    /\ pc = "idle"
    /\ result = NoResult
    /\ app = None
    /\ repos = None
    /\ outcome = NoOutcome
    /\ calls = <<>>
    /\ cluster = {}
    /\ runs = 0

Init ==
    /\ Idle
    /\ hosting \in PreExisting
    /\ probe = [op |-> "none"]
    /\ tmp = NoFiles
    /\ procs = <<>>

Next ==
    \/ StartRun
    \/ AgentExtract
    \/ AgentProvision
    \/ AgentPopulateSource
    \/ AgentPopulateGitops
    \/ AgentRegister
    \/ FuncExtract
    \/ FuncProvision
    \/ FuncPopulateSource
    \/ FuncPopulateGitops
    \/ FuncRegister
    \/ Finish

Spec == Init /\ [][Next]_vars

----------------------------------------------------------------------------
(* SpecMain: main() constructs the agent from the environment variables and
   runs one onboarding flow *)

RequiredVars ==
    {"GITHUB_TOKEN", "GITHUB_USERNAME", "OPENROUTER_API_KEY",
     "NODEJS_TEMPLATE_PATH", "GITOPS_TEMPLATE_PATH"}

\* a validation that does not look at the template directories
ValidateConfigVarsOnly(env, exists) ==
    IF \E var \in RequiredVars : env[var] \in {None, Some("")}
    THEN Raise(OtherException("ValueError",
                              <<"Missing required environment variables">>))
    ELSE Ret(TRUE)

\* _validate_config: `not os.getenv(var)` holds for an unset and for an
\* empty variable
ValidateConfig(env, exists) ==
    IF \E var \in RequiredVars : env[var] \in {None, Some("")}
    THEN Raise(OtherException("ValueError",
                              <<"Missing required environment variables">>))
    ELSE IF "NODEJS_TEMPLATE_PATH" \notin exists
    THEN Raise(OtherException("ValueError", <<"NodeJS template path does not exist">>))
    ELSE IF "GITOPS_TEMPLATE_PATH" \notin exists
    THEN Raise(OtherException("ValueError", <<"GitOps template path does not exist">>))
    ELSE Ret(TRUE)

MainAt(p) == procs = <<[pc |-> p]>>

InitMain ==
    /\ Idle
    /\ hosting \in PreExisting
    \* os.getenv(var) is unset, the empty string or a value; exists holds the
    \* path variables whose value names an existing directory; argc is
    \* len(sys.argv)
    /\ probe \in {p \in [env : [RequiredVars -> {None, Some(""), Some("v")}],
                          exists : SUBSET {"NODEJS_TEMPLATE_PATH",
                                           "GITOPS_TEMPLATE_PATH"},
                          argc : {1, 2}, res : {None}] :
                    \A var \in p.exists : p.env[var] = Some("v")}
    /\ tmp = NoFiles
    /\ MainAt("main")

\* len(sys.argv) < 2: usage message and sys.exit(1)
MainUsage ==
    /\ MainAt("main") /\ probe.argc < 2
    /\ procs' = <<[pc |-> "exit1"]>>
    /\ UNCHANGED <<flow, probe, tmp>>

\* agent = OnboardingAgent(): __init__ reads the environment and validates
\* it; the ValueError is caught by main, which reports it and exits 1
MainConstruct ==
    /\ MainAt("main") /\ probe.argc >= 2
    /\ LET r == ValidateConfig(probe.env, probe.exists)
       IN  /\ probe' = [probe EXCEPT !.res = Some(r)]
           /\ procs' = <<[pc |-> IF r.raised THEN "exit1" ELSE "constructed"]>>
    /\ UNCHANGED <<flow, tmp>>

\* agent.run_onboarding_flow(natural_language_request) begins
MainRunFlow ==
    /\ MainAt("constructed")
    /\ runs = 0
    /\ StartRun
    /\ variant' = "agent"

\* main prints the result: exit status 1 unless result['success']
MainExit ==
    /\ MainAt("constructed")
    /\ pc = "done"
    /\ procs' = <<[pc |-> IF result.success THEN "exit0" ELSE "exit1"]>>
    /\ UNCHANGED <<flow, probe, tmp>>

NextMain ==
    \/ MainUsage
    \/ MainConstruct
    \/ MainRunFlow
    \/ AgentExtract
    \/ AgentProvision
    \/ AgentPopulateSource
    \/ AgentPopulateGitops
    \/ AgentRegister
    \/ MainExit

SpecMain == InitMain /\ [][NextMain]_vars

----------------------------------------------------------------------------
(* SpecRunner: TestRunner (tests/test_runner.py) executes a selection of its
   test suites: the parallel-safe suites at once, the others one after the
   other, then the retry rounds *)

MaxSuites == 2
MaxRetries == 2

\* self.test_suites, in the order of the dict
TestSuites ==
    <<[name |-> "prerequisites", critical |-> TRUE, parallel_safe |-> FALSE],
      [name |-> "unit_tests", critical |-> TRUE, parallel_safe |-> TRUE],
      [name |-> "integration_tests", critical |-> TRUE, parallel_safe |-> FALSE],
      [name |-> "performance_tests", critical |-> FALSE, parallel_safe |-> TRUE],
      [name |-> "security_tests", critical |-> FALSE, parallel_safe |-> TRUE]>>

\* What one execution of a test script does: exit status 0, another exit
\* status, TimeoutExpired, another exception, or the script does not exist
RunOutcomes == {"passed", "nonzero", "timeout", "error", "missing"}

\* run_test_suite: the result dict; the dict of a missing script has no
\* "critical" key
RunTestSuite(suite, o) ==
    CASE o = "missing" ->
            [suite_name |-> suite.name, status |-> "FAILED",
             error |-> "Test script not found"]
      [] o = "passed" ->
            [suite_name |-> suite.name, status |-> "PASSED", error |-> "",
             critical |-> suite.critical]
      [] o = "nonzero" ->
            [suite_name |-> suite.name, status |-> "FAILED", error |-> "stderr",
             critical |-> suite.critical]
      [] o = "timeout" ->
            [suite_name |-> suite.name, status |-> "TIMEOUT",
             error |-> "Test suite timed out", critical |-> suite.critical]
      [] OTHER ->
            [suite_name |-> suite.name, status |-> "ERROR", error |-> "str(e)",
             critical |-> suite.critical]

\* the sub-dict of the suites that are not parallel_safe, in the order of
\* the dict
SequentialTests(suites) ==
    LET Unsafe(s) == ~s.parallel_safe IN SelectSeq(suites, Unsafe)

\* the suites run_sequential_tests is given
SequentialSuites ==
    IF probe.op = "execute_test_run" THEN SequentialTests(probe.suites)
    ELSE probe.suites

Runner == procs[1]
RunnerAt(p) == Len(procs) = 1 /\ procs[1].pc = p

InitRunner ==
    /\ Idle
    /\ hosting = [rn \in {} |-> <<>>]
    /\ tmp = NoFiles
    \* execute_test_run under a configuration, or run_sequential_tests alone,
    \* on a selection of self.test_suites
    /\ LET Selections ==
               {SelectSeq(TestSuites, LAMBDA s : s.name \in N) :
                   N \in {M \in SUBSET {TestSuites[i].name : i \in DOMAIN TestSuites} :
                             M # {} /\ Cardinality(M) <= MaxSuites}}
       IN  probe \in
             {[op |-> "execute_test_run", suites |-> s, continue_on_failure |-> c,
               retry_failed_tests |-> r, max_retries |-> m] :
                 s \in Selections, c \in BOOLEAN, r \in BOOLEAN, m \in 0..MaxRetries}
             \cup {[op |-> "run_sequential_tests", suites |-> s,
                     continue_on_failure |-> c, retry_failed_tests |-> FALSE,
                     max_retries |-> 0] :
                       s \in Selections, c \in BOOLEAN}
    /\ procs = <<[pc |-> IF probe.op = "execute_test_run" THEN "parallel"
                         ELSE "sequential",
                  results |-> <<>>, seq |-> <<>>, retry_count |-> 0,
                  reran |-> <<>>]>>

\* run_parallel_tests: every suite is submitted and the results are
\* appended in the order the futures complete
RunParallel ==
    /\ RunnerAt("parallel")
    /\ LET Safe(s) == s.parallel_safe
           par == SelectSeq(probe.suites, Safe)
           \* execute_test_run goes on with the sequential suites, if any
           after == IF SequentialTests(probe.suites) # <<>> THEN "sequential"
                    ELSE "retry"
       IN  IF par = <<>>
           THEN procs' = <<[Runner EXCEPT !.pc = after]>>
           ELSE \E order \in {f \in [1..Len(par) -> 1..Len(par)] :
                                 \A i, j \in 1..Len(par) : i # j => f[i] # f[j]},
                   os \in [1..Len(par) -> RunOutcomes] :
                   procs' = <<[Runner EXCEPT
                                !.pc = after,
                                !.results = [i \in 1..Len(par) |->
                                    RunTestSuite(par[order[i]], os[order[i]])]]>>
    /\ UNCHANGED <<flow, probe, tmp>>

\* One iteration of the loop of run_sequential_tests: the suite runs, its
\* result is appended, and the loop stops on a critical failure.  The
\* condition reads result["critical"] whenever the status is not PASSED.
RunSequentialStep ==
    /\ RunnerAt("sequential")
    /\ \E o \in RunOutcomes :
          LET suite == SequentialSuites[Len(Runner.seq) + 1]
              res == RunTestSuite(suite, o)
              seq == Append(Runner.seq, res)
              \* the caller goes on with the return value
              after == IF probe.op = "execute_test_run" THEN "retry" ELSE "done"
          IN  IF res.status # "PASSED" /\ "critical" \notin DOMAIN res
              THEN procs' = <<[Runner EXCEPT !.pc = "raised", !.seq = seq]>>
              ELSE IF \/ /\ res.status # "PASSED"
                         /\ res.critical
                         /\ ~probe.continue_on_failure
                      \/ Len(seq) = Len(SequentialSuites)
              THEN procs' = <<[Runner EXCEPT !.pc = after, !.seq = seq,
                                            !.results = @ \o seq]>>
              ELSE procs' = <<[Runner EXCEPT !.seq = seq]>>
    /\ UNCHANGED <<flow, probe, tmp>>

\* the results a retry round runs again
FailedSuites(results) ==
    LET NotPassed(r) == r.status # "PASSED" IN SelectSeq(results, NotPassed)

\* an update that takes every retry result
RetryUpdateAnyStatus(results, retry_results) ==
    [i \in 1..Len(results) |->
        LET hits == {k \in 1..Len(retry_results) :
                        retry_results[k].suite_name = results[i].suite_name}
        IN  IF hits = {} THEN results[i]
            ELSE retry_results[CHOOSE k \in hits : \A l \in hits : k <= l]]

\* "Update results with retry outcomes": results[i] becomes the first retry
\* result of the same suite that PASSED
RetryUpdate(results, retry_results) ==
    [i \in 1..Len(results) |->
        LET hits == {k \in 1..Len(retry_results) :
                        /\ retry_results[k].suite_name = results[i].suite_name
                        /\ retry_results[k].status = "PASSED"}
        IN  IF hits = {} THEN results[i]
            ELSE retry_results[CHOOSE k \in hits : \A l \in hits : k <= l]]

\* One round of the while loop of retry_failed_tests
RetryRound ==
    /\ RunnerAt("retry")
    /\ probe.retry_failed_tests
    /\ Runner.retry_count < probe.max_retries
    /\ FailedSuites(Runner.results) # <<>>
    /\ LET failed == FailedSuites(Runner.results)
           retry_count == Runner.retry_count + 1
       IN  \E os \in [1..Len(failed) -> RunOutcomes] :
              LET retry_results ==
                      [k \in 1..Len(failed) |->
                          [retry_attempt |-> retry_count] @@
                          RunTestSuite(
                              CHOOSE s \in {TestSuites[i] : i \in DOMAIN TestSuites} :
                                  s.name = failed[k].suite_name,
                              os[k])]
              IN  procs' = <<[Runner EXCEPT
                                !.retry_count = retry_count,
                                !.reran = [k \in 1..Len(failed) |-> failed[k].suite_name],
                                !.results = RetryUpdate(@, retry_results)]>>
    /\ UNCHANGED <<flow, probe, tmp>>

\* retry_failed_tests returns: retries are disabled, the rounds are used up,
\* or nothing is left to retry
RetryReturn ==
    /\ RunnerAt("retry")
    /\ \/ ~probe.retry_failed_tests
       \/ Runner.retry_count >= probe.max_retries
       \/ FailedSuites(Runner.results) = <<>>
    /\ procs' = <<[Runner EXCEPT !.pc = "done"]>>
    /\ UNCHANGED <<flow, probe, tmp>>

NextRunner ==
    \/ RunParallel
    \/ RunSequentialStep
    \/ RetryRound
    \/ RetryReturn

SpecRunner == InitRunner /\ [][NextRunner]_vars

\* the runner is a sequential program: it takes its next step
SpecRunnerLive == SpecRunner /\ WF_vars(NextRunner)

----------------------------------------------------------------------------
(* SpecExtract: the extractors applied to drawn requests and LLM outcomes *)

\* requests that name no application
GenericRequests ==
    {<<"J", "u", "s", "t", " ", "d", "e", "p", "l", "o", "y", " ", "s",
       "o", "m", "e", "t", "h", "i", "n", "g", " ", "g", "e", "n", "e",
       "r", "i", "c">>,
     <<"m", "a", "k", "e", " ", "i", "t">>,
     <<>>}

\* Requests by construction: "<prefix>called X<suffix>" and "<prefix>named
\* X<suffix>" (kind keyword), "<prefix>'X'<suffix>" (kind quoted), and
\* requests none of the name patterns matches (kind none)
ProbeRequests ==
    LET names == {<<"A", "b">>, <<"a", "-", "b">>, <<"a", "_", "b">>, <<"b", "2">>}
        prefixes == {<<>>, <<"x", " ">>}
        suffixes == {<<>>, <<" ", "n", "o", "w">>}
    IN  {[kind |-> "keyword", req |-> pre \o kw \o <<" ">> \o x \o suf, x |-> Some(x)] :
            pre \in prefixes, kw \in {Called, Named}, x \in names, suf \in suffixes}
        \cup
        {[kind |-> "quoted", req |-> pre \o <<Quote>> \o x \o <<Quote>> \o suf,
          x |-> Some(x)] :
            pre \in prefixes, x \in names, suf \in suffixes}
        \cup
        {[kind |-> "none", req |-> r, x |-> None] :
            r \in GenericRequests \cup
                  {<<"c", "a", "l", "l", "e", "d">>, <<"n", "a", "m", "e", "d", " ">>,
                   <<"s", "i", "m", "p", "l", "e", " ", "a", "p", "p">>,
                   <<"i", "t", "'", "s", " ", "c", "a", "l", "l", "e", "d", " ", "!">>}}

\* Requests that carry two or three of the clauses "called Ab", "named b2"
\* and "'a_b'" in every text order; first is the clause of the lowest number
\* (1 called, 2 named, 3 quoted) the request carries
Clause(i) ==
    CASE i = 1 -> Called \o <<" ", "A", "b">>
      [] i = 2 -> Named \o <<" ", "b", "2">>
      [] OTHER -> <<Quote, "a", "_", "b", Quote>>
ClauseName(i) ==
    CASE i = 1 -> <<"A", "b">>
      [] i = 2 -> <<"b", "2">>
      [] OTHER -> <<"a", "_", "b">>
RECURSIVE JoinClauses(_)
JoinClauses(o) ==
    IF Len(o) = 1 THEN Clause(o[1])
    ELSE Clause(o[1]) \o <<" ">> \o JoinClauses(Tail(o))
MixedRequests ==
    {[kind |-> "mixed", req |-> JoinClauses(o), order |-> o,
      first |-> CHOOSE i \in {o[k] : k \in DOMAIN o} :
                    \A k \in DOMAIN o : i <= o[k]] :
        o \in {p \in UNION {[1..n -> 1..3] : n \in 2..3} :
                  \A i, j \in DOMAIN p : i # j => p[i] # p[j]}}

InitExtract ==
    /\ Idle
    /\ hosting = [rn \in {} |-> <<>>]
    \* the LLM outcomes of the class variant are those of the flow and JSON
    \* objects with a name that is no lowercase hyphenated token or with no name
    /\ LET llms ==
               LlmOutcomes \cup
               {[kind |-> "json_object",
                 obj |-> Some([name |-> n, description |-> Some(<<"a service">>),
                               language |-> Some("Python"), author |-> Some("dev")])] :
                   n \in {Some(<<"M", "y", " ", "A", "p", "p">>),
                          Some(<<"a", "_", "b">>), None}}
       IN  probe \in
             {[op |-> "extract_app_info", case |-> c, llm |-> l, res |-> None] :
                 c \in ProbeRequests, l \in llms}
             \cup {[op |-> "_fallback_extraction", case |-> c, llm |-> None,
                     res |-> None] :
                       c \in ProbeRequests \cup MixedRequests}
             \cup {[op |-> "extract_app_name_from_request", case |-> c, llm |-> l,
                     res |-> None] :
                       c \in ProbeRequests, l \in FuncLlmOutcomes}
    /\ tmp = NoFiles
    /\ procs = <<>>

ProbeExtractAppInfo ==
    /\ probe.op = "extract_app_info" /\ IsNone(probe.res)
    /\ probe' = [probe EXCEPT !.res = Some(ExtractAppInfo(probe.case.req, probe.llm))]
    /\ UNCHANGED <<flow, tmp, procs>>

ProbeFallbackExtraction ==
    /\ probe.op = "_fallback_extraction" /\ IsNone(probe.res)
    /\ probe' = [probe EXCEPT !.res = Some(Ret(FallbackExtraction(probe.case.req)))]
    /\ UNCHANGED <<flow, tmp, procs>>

ProbeExtractAppNameFromRequest ==
    /\ probe.op = "extract_app_name_from_request" /\ IsNone(probe.res)
    /\ probe' = [probe EXCEPT
                    !.res = Some(Ret(ExtractAppNameFromRequest(probe.case.req, probe.llm)))]
    /\ UNCHANGED <<flow, tmp, procs>>

NextExtract ==
    \/ ProbeExtractAppInfo
    \/ ProbeFallbackExtraction
    \/ ProbeExtractAppNameFromRequest

SpecExtract == InitExtract /\ [][NextExtract]_vars

----------------------------------------------------------------------------
(* SpecStage: populate_repo_from_stack of both variants and
   _apply_kubernetes_manifest applied to drawn inputs *)

ProbeApp == AppInfo(<<"a">>, <<"service a">>, "NodeJS", "AI Agent")

InitStage ==
    /\ Idle
    \* the provider before the call: the repositories of "a" as created, or
    \* the source repository already populated by an earlier run
    /\ hosting \in
          PreExisting \cup
          {[rn \in {SourceRepoName(<<"a">>)} |->
              [NewRepo(rn) EXCEPT !.content = <<"README", c>>]] :
                c \in {Rendered(NodejsTemplatePath, ProbeApp),
                       FuncRendered(FuncSourceTemplatePath, ProbeApp.name,
                                    ProbeApp.description)}}
    /\ LET urls == {CloneUrl(SourceRepoName(<<"a">>)), CloneUrl(GitopsRepoName(<<"a">>))}
       IN  probe \in
             {[op |-> "populate_repo_from_stack", repo_url |-> u,
               template_path |-> t, f |-> f, res |-> None] :
                 u \in urls, f \in PopulateFaults,
                 t \in {NodejsTemplatePath, WorkflowTemplatePath, BrokenTemplatePath}}
             \cup {[op |-> "func.populate_repo_from_stack", repo_url |-> u,
                     template_path |-> t, f |-> f, res |-> None] :
                       u \in urls, f \in FuncPopulateFaults,
                       t \in {FuncSourceTemplatePath, WorkflowTemplatePath}}
             \cup {[op |-> "_copy_template_files", template_path |-> t, res |-> None] :
                      t \in {NodejsTemplatePath, GitopsTemplatePath,
                             WorkflowTemplatePath, BrokenTemplatePath}}
             \cup {[op |-> "_apply_kubernetes_manifest", fail |-> x, res |-> None] :
                      x \in RegisterFails \ {"kube_config"}}
             \cup {[op |-> o, fail |-> x, res |-> None] :
                      o \in {"create_argocd_application",
                             "func.create_argocd_application"},
                      x \in RegisterFails}
    \* scratch files before the call: none, or what earlier and other runs left
    /\ tmp \in {NoFiles,
                 [p \in {FuncCloneDir(SourceRepoName(<<"a">>)), TempDir("k2")} |->
                     <<"stale">>]}
    /\ procs = <<>>

StageUnchanged ==
    UNCHANGED <<variant, request, pc, result, app, repos, outcome, calls, runs, procs>>

ProbePopulateRepoFromStack ==
    /\ probe.op = "populate_repo_from_stack" /\ IsNone(probe.res)
    /\ \E id \in TempIds :
          /\ TempDir(id) \notin DOMAIN tmp
          /\ LET r == PopulateRepoFromStack(tmp, TempDir(id), hosting, probe.repo_url,
                                            probe.template_path, ProbeApp, probe.f)
             IN  /\ probe' = [op |-> probe.op, repo_url |-> probe.repo_url,
                              template_path |-> probe.template_path, f |-> probe.f,
                              res |-> Some(r.res), pre |-> hosting,
                              clone_attempted |-> r.clone_attempted,
                              scratch |-> TempDir(id)]
                 /\ hosting' = r.hosting
                 /\ tmp' = r.tmp
    /\ UNCHANGED cluster
    /\ StageUnchanged

ProbeFuncPopulateRepoFromStack ==
    /\ probe.op = "func.populate_repo_from_stack" /\ IsNone(probe.res)
    /\ LET r == FuncPopulateRepoFromStack(tmp, hosting, probe.repo_url,
                                          probe.template_path, ProbeApp.name,
                                          ProbeApp.description, probe.f)
       IN  /\ probe' = [op |-> probe.op, repo_url |-> probe.repo_url,
                        template_path |-> probe.template_path, f |-> probe.f,
                        res |-> Some(r.res), pre |-> hosting,
                        clone_attempted |-> r.clone_attempted,
                        scratch |-> FuncCloneDir(RepoNameOfUrl(probe.repo_url))]
           /\ hosting' = r.hosting
           /\ tmp' = r.tmp
    /\ UNCHANGED cluster
    /\ StageUnchanged

\* _copy_template_files into a freshly cloned working tree
ProbeCopyTemplateFiles ==
    /\ probe.op = "_copy_template_files" /\ IsNone(probe.res)
    /\ probe' = [probe EXCEPT !.res =
                    Some(CopyTemplateFiles(<<"README">>, probe.template_path, ProbeApp,
                                           [fail |-> "none", tmpl_exists |-> TRUE]))]
    /\ UNCHANGED <<hosting, cluster, tmp>>
    /\ StageUnchanged

ProbeApplyKubernetesManifest ==
    /\ probe.op = "_apply_kubernetes_manifest" /\ IsNone(probe.res)
    /\ \E id \in TempIds :
          /\ TempManifest(id) \notin DOMAIN tmp
          /\ LET url == CloneUrl(GitopsRepoName(ProbeApp.name))
                 r == ApplyKubernetesManifest(tmp, TempManifest(id), cluster,
                          GenerateArgocdManifest(ProbeApp, url), probe.fail)
             IN  /\ probe' = [op |-> probe.op, fail |-> probe.fail,
                              res |-> Some(r.res), scratch |-> TempManifest(id)]
                 /\ cluster' = r.cluster
                 /\ tmp' = r.tmp
    /\ UNCHANGED hosting
    /\ StageUnchanged

ProbeCreateArgocdApplication ==
    /\ probe.op = "create_argocd_application" /\ IsNone(probe.res)
    /\ \E id \in TempIds :
          /\ TempManifest(id) \notin DOMAIN tmp
          /\ LET r == CreateArgocdApplication(tmp, TempManifest(id), cluster, ProbeApp,
                          CloneUrl(GitopsRepoName(ProbeApp.name)), probe.fail)
             IN  /\ probe' = [probe EXCEPT !.res = Some(r.res)]
                 /\ cluster' = r.cluster
                 /\ tmp' = r.tmp
    /\ UNCHANGED hosting
    /\ StageUnchanged

ProbeFuncCreateArgocdApplication ==
    /\ probe.op = "func.create_argocd_application" /\ IsNone(probe.res)
    /\ LET r == FuncCreateArgocdApplication(tmp, cluster, ProbeApp.name,
                    CloneUrl(GitopsRepoName(ProbeApp.name)), probe.fail)
       IN  /\ probe' = [probe EXCEPT !.res = Some(r.res)]
           /\ cluster' = r.cluster
           /\ tmp' = r.tmp
    /\ UNCHANGED hosting
    /\ StageUnchanged

NextStage ==
    \/ ProbePopulateRepoFromStack
    \/ ProbeFuncPopulateRepoFromStack
    \/ ProbeCopyTemplateFiles
    \/ ProbeApplyKubernetesManifest
    \/ ProbeCreateArgocdApplication
    \/ ProbeFuncCreateArgocdApplication

SpecStage == InitStage /\ [][NextStage]_vars

----------------------------------------------------------------------------
(* SpecScratch: two onboarding runs interleave the steps that touch the
   temporary directory *)

\* The scratch steps of one run, in program order: populate the source
\* repository, populate the gitops repository, register the deployment
Program(run) ==
    IF run.variant = "agent"
    THEN <<"mkdtemp", "clone", "rmtree", "mkdtemp", "clone", "rmtree", "mkstemp", "unlink">>
    ELSE <<"rm", "clone", "push", "rm", "clone", "push", "write", "apply">>

\* the step run i is about to take ("end" after the last one)
Act(i) ==
    IF procs[i].pc <= Len(Program(procs[i])) THEN Program(procs[i])[procs[i].pc]
    ELSE "end"

\* the repository the current populate call works on
RepoAt(run) ==
    IF run.pc <= 3 THEN SourceRepoName(run.name) ELSE GitopsRepoName(run.name)

\* run i removes or overwrites the paths ps: some of them are in use by the
\* other run
Clobbers(i, ps) == \E p \in ps : p \in DOMAIN tmp /\ p \in procs[3 - i].holding

ScratchRun(v, n) ==
    [variant |-> v, name |-> n, pc |-> 1, dir |-> <<>>, holding |-> {},
     clobbered |-> FALSE]

InitScratch ==
    /\ Idle
    /\ hosting = [rn \in {} |-> <<>>]
    /\ probe = [op |-> "none"]
    /\ tmp = NoFiles
    /\ procs \in {<<ScratchRun(v1, <<"a">>), ScratchRun(v2, n2)>> :
                     v1 \in {"agent", "func"}, v2 \in {"agent", "func"},
                     n2 \in {<<"a">>, <<"b">>}}

\* the run ends through an exception of a subprocess call
Ended(run) == [run EXCEPT !.pc = Len(Program(run)) + 1, !.holding = {}]

\* tempfile.TemporaryDirectory(): a directory under a name not in use
Mkdtemp(i) ==
    /\ Act(i) = "mkdtemp"
    /\ \E id \in TempIds :
          /\ TempDir(id) \notin DOMAIN tmp
          /\ tmp' = WriteFile(tmp, TempDir(id), [owner |-> i])
          /\ procs' = [procs EXCEPT ![i].pc = @ + 1, ![i].dir = TempDir(id),
                                    ![i].holding = @ \cup {TempDir(id)}]
    /\ UNCHANGED <<flow, probe>>

\* git clone repo_url repo_path, repo_path inside the temporary directory
AgentClone(i) ==
    /\ Act(i) = "clone" /\ procs[i].variant = "agent"
    /\ LET repo_path == procs[i].dir \o <<"/">> \o RepoAt(procs[i])
       IN  /\ tmp' = WriteFile(tmp, repo_path, [owner |-> i])
           /\ procs' = [procs EXCEPT ![i].pc = @ + 1,
                                     ![i].clobbered = @ \/ Clobbers(i, {repo_path})]
    /\ UNCHANGED <<flow, probe>>

\* the exit of the with block removes the temporary directory
Rmtree(i) ==
    /\ Act(i) = "rmtree"
    /\ tmp' = RemoveTree(tmp, procs[i].dir)
    /\ procs' = [procs EXCEPT
                    ![i].pc = @ + 1, ![i].dir = <<>>,
                    ![i].holding = @ \ {procs[i].dir},
                    ![i].clobbered =
                        @ \/ Clobbers(i, {p \in DOMAIN tmp : IsUnder(p, procs[i].dir)})]
    /\ UNCHANGED <<flow, probe>>

\* tempfile.NamedTemporaryFile(suffix='.yaml', delete=False) and the write
Mkstemp(i) ==
    /\ Act(i) = "mkstemp"
    /\ \E id \in TempIds :
          /\ TempManifest(id) \notin DOMAIN tmp
          /\ tmp' = WriteFile(tmp, TempManifest(id), [owner |-> i])
          /\ procs' = [procs EXCEPT ![i].pc = @ + 1, ![i].dir = TempManifest(id),
                                    ![i].holding = @ \cup {TempManifest(id)}]
    /\ UNCHANGED <<flow, probe>>

\* kubectl apply -f manifest_file and os.unlink(manifest_file)
Unlink(i) ==
    /\ Act(i) = "unlink"
    /\ tmp' = RemoveTree(tmp, procs[i].dir)
    /\ procs' = [procs EXCEPT ![i].pc = @ + 1, ![i].dir = <<>>,
                              ![i].holding = @ \ {procs[i].dir}]
    /\ UNCHANGED <<flow, probe>>

\* rm -rf /tmp/{repo_name}
FuncRm(i) ==
    /\ Act(i) = "rm"
    /\ LET dir == FuncCloneDir(RepoAt(procs[i]))
       IN  /\ tmp' = RemoveTree(tmp, dir)
           /\ procs' = [procs EXCEPT
                           ![i].pc = @ + 1,
                           ![i].clobbered =
                               @ \/ Clobbers(i, {p \in DOMAIN tmp : IsUnder(p, dir)})]
    /\ UNCHANGED <<flow, probe>>

\* git clone repo_url /tmp/{repo_name}: fails when the path exists
FuncClone(i) ==
    /\ Act(i) = "clone" /\ procs[i].variant = "func"
    /\ LET dir == FuncCloneDir(RepoAt(procs[i]))
       IN  IF dir \in DOMAIN tmp
           THEN /\ procs' = [procs EXCEPT ![i] = Ended(@)]
                /\ tmp' = tmp
           ELSE /\ tmp' = WriteFile(tmp, dir, [owner |-> i])
                /\ procs' = [procs EXCEPT ![i].pc = @ + 1,
                                          ![i].holding = @ \cup {dir}]
    /\ UNCHANGED <<flow, probe>>

\* the template files are written into /tmp/{repo_name} and git add, commit
\* and push run there: they fail when the directory is gone
FuncPush(i) ==
    /\ Act(i) = "push"
    /\ LET dir == FuncCloneDir(RepoAt(procs[i]))
       IN  IF dir \notin DOMAIN tmp
           THEN procs' = [procs EXCEPT ![i] = Ended(@)]
           ELSE procs' = [procs EXCEPT ![i].pc = @ + 1,
                                       ![i].holding = @ \ {dir}]
    /\ UNCHANGED <<flow, probe, tmp>>

\* open(f"/tmp/{app_name}-argocd.yaml", "w") and the write
FuncWrite(i) ==
    /\ Act(i) = "write"
    /\ LET file == FuncManifestFile(procs[i].name)
       IN  /\ tmp' = WriteFile(tmp, file, [owner |-> i])
           /\ procs' = [procs EXCEPT ![i].pc = @ + 1,
                                     ![i].holding = @ \cup {file},
                                     ![i].clobbered = @ \/ Clobbers(i, {file})]
    /\ UNCHANGED <<flow, probe>>

\* kubectl apply -f manifest_file; the file is left in place
FuncApply(i) ==
    /\ Act(i) = "apply"
    /\ procs' = [procs EXCEPT ![i].pc = @ + 1,
                              ![i].holding = @ \ {FuncManifestFile(procs[i].name)}]
    /\ UNCHANGED <<flow, probe, tmp>>

NextScratch ==
    \E i \in 1..2 :
        \/ Mkdtemp(i)
        \/ AgentClone(i)
        \/ Rmtree(i)
        \/ Mkstemp(i)
        \/ Unlink(i)
        \/ FuncRm(i)
        \/ FuncClone(i)
        \/ FuncPush(i)
        \/ FuncWrite(i)
        \/ FuncApply(i)

SpecScratch == InitScratch /\ [][NextScratch]_vars

----------------------------------------------------------------------------
(* Properties *)

AgentRun == variant = "agent" /\ pc # "idle"
AgentDone == variant = "agent" /\ pc = "done"

\* The stages in the order run_onboarding_flow invokes them
StageOrder ==
    <<"extract", "create_github_repo", "populate_repo_from_stack",
      "populate_repo_from_stack", "create_argocd_application">>

\* C1: OnboardingAgent.run_onboarding_flow never raises: whatever the stages
\* do, exceptions included, the flow ends by returning a record with the keys
\* success, app_info, repositories, argocd_created, error and timestamp.
C1_FlowNeverRaises ==
    AgentDone =>
        /\ outcome.kind = "returned"
        /\ DOMAIN Val(outcome.value) = ResultKeys

\* a run in which create_github_repo raised an exception that is no
\* GithubException, and the flow returned a record
C1_Witness ==
    /\ AgentDone
    /\ Len(calls) = 2
    /\ calls[2].out.raised
    /\ Val(calls[2].out.exc).cls = "ConnectionError"
    /\ outcome.kind = "returned"

\* C2: in both variants the stages are invoked in the order extract,
\* create_github_repo, populate(source), populate(gitops),
\* create_argocd_application; every stage but the last invoked one has
\* returned, none is invoked twice, and the first populate call gets the
\* source URL the provisioning returned, the second the gitops URL.
C2_StrictStageOrder ==
    /\ Len(calls) <= Len(StageOrder)
    /\ \A i \in 1..Len(calls) :
          /\ calls[i].stage = StageOrder[i]
          /\ i < Len(calls) => ~calls[i].out.raised
    /\ Len(calls) >= 3 => calls[3].arg = Val(calls[2].out.val).source_repo_url
    /\ Len(calls) >= 4 => calls[4].arg = Val(calls[2].out.val).gitops_repo_url

\* a run of the class variant that invoked all five stages
C2_Witness == AgentRun /\ Len(calls) = 5

\* C3: when a populate call returns false, it is the last stage the run
\* invokes (no gitops populate after a failed source populate, no
\* create_argocd_application after either), and the flow reports failure:
\* success false with an error in OnboardingAgent, False in the function
\* variant.
C3_PopulateFailureHalts ==
    \A i \in 1..Len(calls) :
        (/\ calls[i].stage = "populate_repo_from_stack"
         /\ ~calls[i].out.raised
         /\ ~Val(calls[i].out.val))
        => /\ i = Len(calls)
           /\ pc = "done"
           /\ variant = "agent" =>
                 /\ outcome = Returned(result)
                 /\ ~result.success
                 /\ ~IsNone(result.error)
           /\ variant = "func" => outcome = Returned(FALSE)

\* the gitops populate of the class variant returned false
C3_Witness ==
    /\ AgentDone
    /\ Len(calls) = 4
    /\ calls[4].out = Ret(FALSE)

\* C4: when create_argocd_application returns false, the result of
\* OnboardingAgent.run_onboarding_flow has success false and an error string.
C4_ApplyFailureIsFlowFailure ==
    (/\ AgentDone
     /\ Len(calls) = 5
     /\ calls[5].out = Ret(FALSE))
    => /\ ~result.success
       /\ ~IsNone(result.error)
       /\ Len(Val(result.error)) > 0

\* The state part of C5: a result returned with success false has a non-empty error string and
\* holds the output of every stage that completed (app_info after the
\* extraction, repositories after the provisioning); during a run a field
\* that was written keeps its value.
C5_ResultAtFailure ==
    (AgentDone /\ outcome.kind = "returned" /\ ~result.success) =>
        /\ ~IsNone(result.error)
        /\ Len(Val(result.error)) > 0
        /\ \A i \in 1..Len(calls) :
              ~calls[i].out.raised =>
                 /\ calls[i].stage = "extract" =>
                       result.app_info = calls[i].out.val
                 /\ calls[i].stage = "create_github_repo" =>
                       result.repositories = calls[i].out.val

\* The step part of C5
C5_WriteOnce ==
    (AgentRun /\ pc' # "idle") =>
        /\ ~IsNone(result.app_info) => result'.app_info = result.app_info
        /\ ~IsNone(result.repositories) => result'.repositories = result.repositories
        /\ ~IsNone(result.error) => result'.error = result.error
        /\ result.success => result'.success
        /\ result.argocd_created => result'.argocd_created
        /\ result'.timestamp = result.timestamp

\* C5: at every failure return the record is as C5_ResultAtFailure says, and
\* no step of a run resets a field of the record that was written.
C5_FailurePreservesOutputs == [](C5_ResultAtFailure) /\ [][C5_WriteOnce]_vars

\* the source populate failed after extraction and provisioning completed
C5_Witness ==
    /\ AgentDone
    /\ Len(calls) = 3
    /\ ~result.success
    /\ ~IsNone(result.app_info)
    /\ ~IsNone(result.repositories)
    /\ result.error = Some(<<"Failed to populate source repository">>)

\* C6: when OnboardingAgent.create_github_repo returns a RepositoryInfo, both
\* {name}-source and {name}-gitops exist at the provider.
C6_BothRepositoriesExist ==
    (AgentRun /\ Len(calls) >= 2 /\ ~calls[2].out.raised) =>
        /\ SourceRepoName(calls[2].arg[1]) \in calls[2].env.post
        /\ GitopsRepoName(calls[2].arg[1]) \in calls[2].env.post

\* C7: OnboardingAgent.create_github_repo raises only when a creation call
\* failed with a hosting-API error whose status is not 422; on every other
\* error path it returns a RepositoryInfo.
C7_RaisesOnlyOnNonConflictApiError ==
    (AgentRun /\ Len(calls) >= 2 /\ calls[2].out.raised) =>
        /\ Val(calls[2].out.exc).cls = "GithubException"
        /\ Val(calls[2].out.exc).status # "422"
        /\ calls[2].env.faults.user = "none"

\* The creation failed with a conflict: the first failing call of the try
\* block is a create_repo for a name that exists
CreationConflict(c) ==
    /\ c.env.faults.user = "none"
    /\ c.env.faults.src = "none"
    /\ \/ SourceRepoName(c.arg[1]) \in c.env.pre
       \/ /\ c.env.faults.ops = "none"
          /\ GitopsRepoName(c.arg[1]) \in c.env.pre

\* The lookup of both repositories succeeds
LookupSucceeds(c) ==
    /\ c.env.faults.luser = "none"
    /\ c.env.faults.lsrc = "none"
    /\ c.env.faults.lops = "none"
    /\ SourceRepoName(c.arg[1]) \in c.env.post
    /\ GitopsRepoName(c.arg[1]) \in c.env.post

\* C8: after a conflict (422) on creation, create_github_repo does not raise:
\* it returns the clone URLs and identifiers of the two repositories it
\* looked up, or, when the lookup fails, the URLs constructed from the
\* configured username with both identifiers "unknown".
C8_ConflictNeverFailsTheStage ==
    (AgentRun /\ Len(calls) >= 2 /\ CreationConflict(calls[2])) =>
        LET c == calls[2]
            name == c.arg[1]
        IN  /\ ~c.out.raised
            /\ IF LookupSucceeds(c)
               THEN Val(c.out.val) =
                       RepositoryInfo(CloneUrl(SourceRepoName(name)),
                                      CloneUrl(GitopsRepoName(name)),
                                      <<"id-">> \o SourceRepoName(name),
                                      <<"id-">> \o GitopsRepoName(name))
               ELSE Val(c.out.val) =
                       RepositoryInfo(
                          CloneUrl(name \o <<"-source">>),
                          CloneUrl(name \o <<"-gitops">>),
                          <<"unknown">>, <<"unknown">>)

\* The creation failed with a hosting-API error that is no conflict
CreationApiError(c) ==
    /\ c.env.faults.user = "none"
    /\ \/ c.env.faults.src = "api_error"
       \/ /\ c.env.faults.src = "none"
          /\ SourceRepoName(c.arg[1]) \notin c.env.pre
          /\ c.env.faults.ops = "api_error"

\* C9: when a creation call fails with a hosting-API error other than a
\* conflict, create_github_repo raises it and run_onboarding_flow returns a
\* failure result without invoking populate_repo_from_stack or
\* create_argocd_application.
C9_ApiErrorHaltsBeforePopulate ==
    (AgentRun /\ Len(calls) >= 2 /\ CreationApiError(calls[2])) =>
        /\ calls[2].out.raised
        /\ Val(calls[2].out.exc).cls = "GithubException"
        /\ Len(calls) = 2
        /\ pc = "done"
        /\ outcome = Returned(result)
        /\ ~result.success
        /\ result.error = Some(StrExc(Val(calls[2].out.exc)))
        /\ IsNone(result.repositories)

\* the source repository was created and the creation of the gitops
\* repository failed with status 500
C9_Witness ==
    /\ AgentDone
    /\ Len(calls) = 2
    /\ CreationApiError(calls[2])
    /\ calls[2].env.faults.src = "none"
    /\ result.error = Some(<<"500", " ", "Server Error">>)

\* s has t as a contiguous part
Contains(s, t) ==
    \E i \in 1..(Len(s) - Len(t) + 1) : SubSeq(s, i, i + Len(t) - 1) = t

\* C10: every RepositoryInfo OnboardingAgent.create_github_repo returns has a
\* source_repo_url containing {name}-source and a gitops_repo_url containing
\* {name}-gitops, on the creation, the lookup and the fallback path.
C10_UrlsCarryRepositoryNames ==
    (AgentRun /\ Len(calls) >= 2 /\ ~calls[2].out.raised) =>
        LET info == Val(calls[2].out.val)
            name == calls[2].arg[1]
        IN  /\ Contains(info.source_repo_url, name \o <<"-source">>)
            /\ Contains(info.gitops_repo_url, name \o <<"-gitops">>)

\* a RepositoryInfo of the fallback path: conflict, then a failed lookup
C10_Witness ==
    /\ AgentRun
    /\ Len(calls) >= 2
    /\ ~calls[2].out.raised
    /\ calls[2].env.path = "fallback"
    /\ Val(calls[2].out.val).source_repo_id = <<"unknown">>

\* C11: when the hosting API is unreachable (obtaining the user or creating
\* a repository raises any exception), create_github_repo of the function
\* variant does not raise and returns the pair of URLs
\* https://github.com/{GITHUB_USERNAME}/{app}-source.git and
\* https://github.com/{GITHUB_USERNAME}/{app}-gitops.git.
C11_FuncProvisionFallsBack ==
    (/\ variant = "func"
     /\ Len(calls) >= 2
     /\ calls[2].stage = "create_github_repo"
     /\ \E k \in {"user", "src", "ops"} : calls[2].env.faults[k] # "none")
    => LET name == calls[2].arg[1]
       IN  calls[2].out =
              Ret([source_repo_url |->
                       <<"https://github.com/", GithubUsername, "/">> \o name
                           \o <<"-source", ".git">>,
                   gitops_repo_url |->
                       <<"https://github.com/", GithubUsername, "/">> \o name
                           \o <<"-gitops", ".git">>])

----------------------------------------------------------------------------
(* Properties of the extractors (SpecExtract) *)

\* name matches ^[a-z0-9-]+$
IsLowerHyphenToken(name) ==
    /\ Len(name) >= 1
    /\ \A i \in 1..Len(name) : name[i] \in LowerLetters \cup Digits \cup {"-"}

\* C16: OnboardingAgent.extract_app_info returns an AppInfo and never
\* raises, for every outcome of the LLM call: network or HTTP error, a
\* response lacking the expected structure, a response that is not valid
\* JSON, JSON that is not an object, JSON with missing fields, or a
\* well-formed response.
C16_ExtractAlwaysReturnsAppInfo ==
    Applied("extract_app_info")
    => LET r == Val(probe.res)
       IN  /\ ~r.raised
           /\ DOMAIN Val(r.val) = {"name", "description", "language", "author"}

\* the content was JSON that is no object, and an AppInfo came back
C16_Witness ==
    /\ Applied("extract_app_info")
    /\ probe.llm.kind = "json_list"
    /\ ~Val(probe.res).raised
    /\ Val(Val(probe.res).val).author = "AI Agent"

\* C17: every AppInfo returned by OnboardingAgent.extract_app_info, via the
\* LLM path or via the fallback path, has a name that matches ^[a-z0-9-]+$.
C17_NameIsLowerHyphenToken ==
    (/\ (Applied("extract_app_info") \/ Applied("_fallback_extraction"))
     /\ ~Val(probe.res).raised)
    => IsLowerHyphenToken(Val(Val(probe.res).val).name)

\* the LLM response cannot be used: the call failed, the text is no valid
\* JSON, or the JSON object lacks the name
LlmUnusable(llm) ==
    \/ llm.kind \in {"http_error", "not_json"}
    \/ llm.kind = "json_object" /\ IsNone(Val(llm.obj).name)

\* C18: when the LLM response cannot be used (call failed, text not valid
\* JSON, JSON lacking required fields such as name), extract_app_info falls
\* through to the pattern-based fallback: for a request containing
\* 'called X' or 'named X' the returned name is X (lowercased, as the
\* fallback extracts it).
C18_UnusableResponseFallsBack ==
    (/\ Applied("extract_app_info")
     /\ LlmUnusable(probe.llm)
     /\ probe.case.kind = "keyword")
    => /\ ~Val(probe.res).raised
       /\ Val(Val(probe.res).val).name = Lower(Val(probe.case.x))

\* the LLM path is disabled or has failed
LlmPathFailed ==
    \/ Applied("_fallback_extraction")
    \/ /\ Applied("extract_app_info")
       /\ probe.llm.kind \in {"http_error", "bad_shape", "not_json", "json_list"}
    \/ /\ Applied("extract_app_name_from_request")
       /\ probe.llm.kind = "error"

\* the name a probe returned (an AppInfo in the class variant, the name
\* itself in the function variant)
ReturnedName ==
    LET v == Val(Val(probe.res).val)
    IN  IF probe.op = "extract_app_name_from_request" THEN v ELSE v.name

\* C19: when the LLM path is disabled or fails, for every request
\* containing 'called X' or 'named X' the fallback returns X lowercased and
\* hyphen-normalized: the name is a lowercase hyphenated token, and it is
\* X lowercased whenever that is one already.
C19_FallbackReturnsNormalizedX ==
    (LlmPathFailed /\ probe.case.kind = "keyword")
    => /\ ~Val(probe.res).raised
       /\ IsLowerHyphenToken(ReturnedName)
       /\ IsLowerHyphenToken(Lower(Val(probe.case.x)))
             => ReturnedName = Lower(Val(probe.case.x))

\* C20: for every request that matches none of the fallback name patterns,
\* OnboardingAgent._fallback_extraction returns the fixed default name
\* 'new-app', with language 'NodeJS' and author 'AI Agent'.
C20_FallbackDefaults ==
    (Applied("_fallback_extraction") /\ probe.case.kind = "none")
    => LET a == Val(Val(probe.res).val)
       IN  /\ a.name = <<"n", "e", "w", "-", "a", "p", "p">>
           /\ a.language = "NodeJS"
           /\ a.author = "AI Agent"

\* _fallback_extraction was applied to "simple app"
C20_Witness ==
    /\ Applied("_fallback_extraction")
    /\ probe.case.kind = "none"
    /\ probe.case.req = <<"s", "i", "m", "p", "l", "e", " ", "a", "p", "p">>
    /\ Val(Val(probe.res).val).name = <<"n", "e", "w", "-", "a", "p", "p">>

\* C21: in the function variant, when the LLM call fails and the request
\* names no application (for example a request that only says to deploy
\* something generic), extract_app_name_from_request returns 'my-app'.
C21_FuncDefaultName ==
    (/\ Applied("extract_app_name_from_request")
     /\ probe.llm.kind = "error"
     /\ probe.case.req \in GenericRequests)
    => Val(probe.res) = Ret(<<"m", "y", "-", "a", "p", "p">>)

----------------------------------------------------------------------------
(* Properties of single stages (SpecStage) *)

\* C12: if the template directory does not exist, populate_repo_from_stack
\* (either variant) returns False without attempting to clone the
\* repository: no git clone is executed and the call does not raise.
C12_MissingTemplateStopsBeforeClone ==
    (/\ Applied("populate_repo_from_stack") \/ Applied("func.populate_repo_from_stack")
     /\ ~probe.f.tmpl_exists)
    => /\ Val(probe.res) = Ret(FALSE)
       /\ ~probe.clone_attempted

\* C13: OnboardingAgent.populate_repo_from_stack returns True only if the
\* clone, the template copy and the git config/add/commit/push commands all
\* succeeded (the repository existed, no step failed, the rendered template
\* is what the repository holds afterwards), and returns False, never
\* raising, when any of them fails.
C13_PopulateTrueIffAllStepsSucceeded ==
    Applied("populate_repo_from_stack")
    => LET r == Val(probe.res)
           rn == RepoNameOfUrl(probe.repo_url)
       IN  /\ ~r.raised
           /\ Val(r.val) \in BOOLEAN
           /\ Val(r.val) =>
                 /\ probe.f.fail = "none"
                 /\ rn \in DOMAIN probe.pre
                 /\ hosting[rn].content =
                       <<"README", Rendered(probe.template_path, ProbeApp)>>
           /\ (probe.f.fail # "none" \/ rn \notin DOMAIN probe.pre) => ~Val(r.val)

\* git push failed after a successful clone, copy, add and commit
C13_Witness ==
    /\ Applied("populate_repo_from_stack")
    /\ probe.f = [fail |-> "push", tmpl_exists |-> TRUE]
    /\ RepoNameOfUrl(probe.repo_url) \in DOMAIN probe.pre
    /\ Val(probe.res) = Ret(FALSE)

\* C14: on every exit path of OnboardingAgent.populate_repo_from_stack the
\* temporary clone directory it created no longer exists when the call ends,
\* and on every exit path of _apply_kubernetes_manifest (apply succeeded,
\* apply failed, exception) the temporary manifest file has been deleted.
C14_ScratchRemovedOnEveryExit ==
    /\ Applied("populate_repo_from_stack")
          => \A p \in DOMAIN tmp : ~IsUnder(p, probe.scratch)
    /\ Applied("_apply_kubernetes_manifest")
          => probe.scratch \notin DOMAIN tmp

----------------------------------------------------------------------------
(* Properties of concurrent runs (SpecScratch) *)

\* C15: if two onboarding runs execute concurrently, including two runs for
\* the same application name, no clone working directory and no manifest
\* file path is in use by both runs, and neither run deletes or overwrites
\* scratch files belonging to the other.
C15_ConcurrentRunsDoNotCollide ==
    Len(procs) = 2
    => /\ procs[1].holding \cap procs[2].holding = {}
       /\ ~procs[1].clobbered
       /\ ~procs[2].clobbered

----------------------------------------------------------------------------
(* Properties of template rendering (SpecStage) *)

\* the eligible files of a template tree whose rendering raises
RenderFails(template_path) ==
    {n \in DOMAIN TemplateTree(template_path) :
        /\ n[Len(n)] \in TemplateExtensions
        /\ RenderTemplate(TemplateTree(template_path)[n], Context(ProbeApp)).raised}

\* the repository a populate probe worked on
ProbeRepo == RepoNameOfUrl(probe.repo_url)

\* C22: if rendering one template file throws, _process_template_file
\* writes a raw copy of that file and the populate stage continues: the
\* remaining files are still processed and, when nothing else fails,
\* populate_repo_from_stack returns True with the raw copy and the
\* processed files pushed.
C22_RenderFailureCopiesRaw ==
    (/\ Applied("populate_repo_from_stack")
     /\ RenderFails(probe.template_path) # {}
     /\ probe.f = [fail |-> "none", tmpl_exists |-> TRUE]
     /\ ProbeRepo \in DOMAIN probe.pre)
    => /\ Val(probe.res) = Ret(TRUE)
       /\ LET src == TemplateTree(probe.template_path)
              content == hosting[ProbeRepo].content
          IN  /\ Len(content) = 2
              /\ DOMAIN content[2] = DOMAIN src
              /\ \A n \in DOMAIN src :
                    IF n \in RenderFails(probe.template_path)
                    THEN content[2][n] = src[n]
                    ELSE IF n[Len(n)] \in TemplateExtensions
                    THEN Placeholders(content[2][n]) = {}
                    ELSE content[2][n] = src[n]

C22_Witness ==
    /\ Applied("populate_repo_from_stack")
    /\ probe.template_path = WorkflowTemplatePath
    /\ Val(probe.res) = Ret(TRUE)
    /\ hosting[ProbeRepo].content[2][<<"ci", ".yml">>]
          = TemplateTree(WorkflowTemplatePath)[<<"ci", ".yml">>]

\* the destination files of a completed _copy_template_files
CopiedFiles == Val(Val(probe.res).val)[2]

\* C23 as stated: after _copy_template_files completes, every destination
\* file whose name ends with a template-eligible suffix and whose source
\* contains a placeholder contains zero unresolved placeholders.
C23_NoUnresolvedPlaceholders ==
    (Applied("_copy_template_files") /\ ~Val(probe.res).raised)
    => \A n \in DOMAIN TemplateTree(probe.template_path) :
          (/\ n[Len(n)] \in TemplateExtensions
           /\ Placeholders(TemplateTree(probe.template_path)[n]) # {})
          => Placeholders(CopiedFiles[n]) = {}

\* C23 amended: after _copy_template_files completes, every destination
\* file whose name ends with a template-eligible suffix, whose source
\* contains a placeholder and whose rendering does not throw contains zero
\* unresolved placeholders; every file with another suffix equals its source.
C23_RenderedFilesHaveNoPlaceholders ==
    (Applied("_copy_template_files") /\ ~Val(probe.res).raised)
    => \A n \in DOMAIN TemplateTree(probe.template_path) :
          /\ (/\ n[Len(n)] \in TemplateExtensions
              /\ Placeholders(TemplateTree(probe.template_path)[n]) # {}
              /\ n \notin RenderFails(probe.template_path))
             => Placeholders(CopiedFiles[n]) = {}
          /\ n[Len(n)] \notin TemplateExtensions
             => CopiedFiles[n] = TemplateTree(probe.template_path)[n]

C23_Witness ==
    /\ Applied("_copy_template_files")
    /\ probe.template_path = WorkflowTemplatePath
    /\ ~Val(probe.res).raised
    /\ Placeholders(CopiedFiles[<<"compose", ".yml">>]) = {}
    /\ Placeholders(CopiedFiles[<<"logo", ".png">>]) # {}

----------------------------------------------------------------------------
(* Properties of the registration stage (SpecStage) *)

\* C24: OnboardingAgent.create_argocd_application never raises: a failure
\* while loading the cluster credentials, writing the manifest or running
\* kubectl apply (non-zero exit or any exception) makes it return False.
C24_CreateArgocdNeverRaises ==
    Applied("create_argocd_application")
    => /\ ~Val(probe.res).raised
       /\ probe.fail # "none" => Val(probe.res) = Ret(FALSE)

C24_Witness ==
    /\ Applied("create_argocd_application")
    /\ probe.fail = "apply_other"
    /\ Val(probe.res) = Ret(FALSE)

\* C25: the function variant's create_argocd_application returns False,
\* without raising, whenever the kubectl apply invocation fails, by a
\* non-zero exit status or by any other exception raised while running
\* the command.
C25_FuncCreateArgocdReturnsFalse ==
    (/\ Applied("func.create_argocd_application")
     /\ probe.fail \in {"apply_nonzero", "apply_other"})
    => Val(probe.res) = Ret(FALSE)

----------------------------------------------------------------------------
(* Properties of main (SpecMain) *)

\* a required setting is missing, or a configured template path does not exist
ConfigInvalid ==
    \/ \E var \in RequiredVars : probe.env[var] = None
    \/ \E var \in {"NODEJS_TEMPLATE_PATH", "GITOPS_TEMPLATE_PATH"} : probe.env[var] = Some("v") /\ var \notin probe.exists

\* C26: if any required setting is missing, or a configured template path
\* does not exist, constructing OnboardingAgent fails and no pipeline stage
\* runs: no LLM, hosting-API, git or kubectl call is made before the failure
\* is reported.
C26_InvalidConfigRunsNoStage ==
    (Len(procs) = 1 /\ "env" \in DOMAIN probe /\ ConfigInvalid)
    => /\ pc = "idle" /\ runs = 0
       /\ calls = <<>>
       /\ cluster = {}
       /\ ~MainAt("constructed") /\ ~MainAt("exit0")
       /\ ~IsNone(probe.res) => Val(probe.res).raised

C26_Witness ==
    /\ Len(procs) = 1 /\ "env" \in DOMAIN probe
    /\ \A var \in RequiredVars : probe.env[var] = Some("v")
    /\ probe.exists = {"NODEJS_TEMPLATE_PATH"}
    /\ ~IsNone(probe.res) /\ Val(probe.res).raised
    /\ MainAt("exit1")
    /\ calls = <<>>

----------------------------------------------------------------------------
(* Properties of a repeated run (Spec) *)

\* the environment made no stage call of the current run fail
NoFaults ==
    /\ \A k \in DOMAIN calls[2].env.faults : calls[2].env.faults[k] = "none"
    /\ \A i \in 3..Len(calls) :
          calls[i].stage = "populate_repo_from_stack"
          => calls[i].env.faults = [fail |-> "none", tmpl_exists |-> TRUE]

\* both repositories of the application existed when the run provisioned
\* them and held the rendered templates when the run came to populate them
AlreadyOnboarded ==
    LET src == SourceRepoName(Val(app).name)
        ops == GitopsRepoName(Val(app).name)
    IN  /\ {src, ops} \subseteq calls[2].env.pre
        /\ calls[3].env.pre = Some(<<"README", Rendered(NodejsTemplatePath, Val(app))>>)
        /\ IF Len(calls) >= 4
           THEN calls[4].env.pre = Some(<<"README", Rendered(GitopsTemplatePath, Val(app))>>)
           ELSE hosting[ops].content = <<"README", Rendered(GitopsTemplatePath, Val(app))>>

\* C27: running run_onboarding_flow again for an application that a previous
\* run onboarded (both repositories exist and already contain the rendered
\* template, so the populate produces no file changes) returns success true
\* with no error.
C27_RerunSucceeds ==
    (AgentDone /\ Len(calls) >= 3 /\ NoFaults /\ AlreadyOnboarded)
    => /\ result.success
       /\ IsNone(result.error)

----------------------------------------------------------------------------
(* Properties of the pattern order (SpecExtract) *)

\* C28: _fallback_extraction tries its name patterns in the fixed order
\* 'called X', 'named X', quoted token, and takes the name from the first
\* pattern in that order that matches anywhere in the request, wherever in
\* the text the matches occur; a later pattern never overrides an earlier one.
C28_FirstPatternInOrderWins ==
    (Applied("_fallback_extraction") /\ probe.case.kind = "mixed")
    => Val(Val(probe.res).val).name = Lower(ClauseName(probe.case.first))

C28_Witness ==
    /\ Applied("_fallback_extraction")
    /\ probe.case.kind = "mixed"
    /\ probe.case.order = <<3, 2, 1>>
    /\ Val(Val(probe.res).val).name = <<"a", "b">>

----------------------------------------------------------------------------
(* Properties of the test runner (SpecRunner, SpecRunnerLive) *)

\* a step of the retry loop changes the results or the round counter
RetryStep ==
    /\ RunnerAt("retry")
    /\ procs'[1].pc = "retry"

\* what one retry round may do
RetryRoundKeeps ==
    LET old == Runner.results
        new == procs'[1].results
    IN  /\ procs'[1].retry_count = Runner.retry_count + 1
        /\ procs'[1].reran =
              [k \in 1..Len(FailedSuites(old)) |-> FailedSuites(old)[k].suite_name]
        /\ Len(new) = Len(old)
        /\ \A i \in 1..Len(old) :
              /\ new[i].suite_name = old[i].suite_name
              /\ old[i].status = "PASSED" => new[i] = old[i]
              /\ new[i] # old[i] => new[i].status = "PASSED"

\* C29: retry_failed_tests terminates after at most max_retries retry
\* rounds, re-runs in each round only the suites whose current result is not
\* PASSED, keeps the number of results unchanged and replaces a result only
\* with a PASSED retry result, so a PASSED result is never replaced and
\* never reverts to a failing status.
C29_RetryIsBoundedAndMonotone ==
    /\ [](Len(procs) = 1 => Runner.retry_count <= probe.max_retries)
    /\ [][RetryStep => RetryRoundKeeps]_vars
    /\ <>(RunnerAt("done") \/ RunnerAt("raised"))

C29_Witness ==
    /\ RunnerAt("done")
    /\ probe.max_retries = 2
    /\ Runner.retry_count = 2
    /\ \E i, j \in 1..Len(Runner.results) :
          /\ Runner.results[i].status = "PASSED"
          /\ "retry_attempt" \in DOMAIN Runner.results[i]
          /\ Runner.results[j].status # "PASSED"

\* the suites run_sequential_tests has run and their results so far
CriticalFailureAt(i) ==
    /\ SequentialSuites[i].critical
    /\ Runner.seq[i].status # "PASSED"

\* C30: when continue_on_failure is false, run_sequential_tests executes
\* the suites in order and, once a critical suite produces a non-PASSED
\* result (FAILED, TIMEOUT, ERROR, or FAILED because its test script is
\* missing), runs no later suite and returns the results collected so far
\* including the failing one.
C30_StopsAtCriticalFailure ==
    (Len(procs) = 1 /\ "suites" \in DOMAIN probe /\ ~probe.continue_on_failure)
    => /\ \A i \in 1..Len(Runner.seq) :
             Runner.seq[i].suite_name = SequentialSuites[i].name
       /\ \A i \in 1..Len(Runner.seq) :
             CriticalFailureAt(i)
             => /\ Len(Runner.seq) = i
                /\ Runner.pc \notin {"sequential", "raised"}
                /\ Runner.retry_count = 0
                   => SubSeq(Runner.results,
                             Len(Runner.results) - i + 1, Len(Runner.results))
                         = Runner.seq

====
